---- MODULE Spec2Model ----
\* A model of the OpenGL backend of the renderer (src/render/opengl/gl_engine.cpp):
\* the typed attribute buffer, the framebuffer, the compiled program, the shader
\* program instance and the engine's registries and compiled-program cache.
EXTENDS Integers, Sequences, FiniteSets, TLC

VARIABLES
    buf,       \* one GLAttributeBuffer: its fields and its device storage
    glErr,     \* the device's cumulative error flag (glGetError)
    bufRes,    \* the last buffer call: what was asked and what came back
    registeredShaderPrograms, \* GLEngine: program name -> (stages, draw mode)
    registeredShaderRules,    \* GLEngine: rule name -> replacement rule
    compiledProgamCache,      \* GLEngine: cache key -> compiled program (0: null pointer)
    compiled,                 \* the GLCompiledProgram objects built so far, by identity
    engRes,                   \* the last engine call: what was asked and what came back
    prog,      \* one GLShaderProgram instance
    progRes,   \* the last call on the instance: what was asked and what came back
    fb,        \* one GLFrameBuffer: its fields and its native attachment points
    ctx,       \* the render context the framebuffer is bound into
    fbRes,     \* the last framebuffer call: what was asked and what came back
    construction, \* one GLCompiledProgram constructor call: its stages, its outcome
    restart,   \* the instance's primitive-restart fields (restartIndex and its flag)
    gl,        \* the device's draw state: primitive restart, what the last draw issued
    builds,    \* cache key -> how many times a program was built for it
    tex,       \* one GLTextureBuffer: its fields and its device image
    texRes,    \* the last texture call: what was asked and what came back
    share      \* the program the instance wraps; the instance requested before it

bufVars == <<buf, glErr, bufRes>>

engVars == <<registeredShaderPrograms, registeredShaderRules, compiledProgamCache,
             compiled, engRes>>

progVars == <<prog, progRes>>

fbVars == <<fb, ctx, fbRes>>

drawVars == <<restart, gl>>

texVars == <<tex, texRes>>

vars == <<buf, glErr, bufRes, registeredShaderPrograms, registeredShaderRules,
          compiledProgamCache, compiled, engRes, prog, progRes, fb, ctx, fbRes,
          construction, restart, gl, builds, tex, texRes, share>>

\* ---------------------------------------------------------------- bounds

\* longest sequence handed to setData
MaxLen == 3
\* largest array multiplicity a buffer is constructed with
MaxArrayCount == 2
\* largest index / start / count handed to a read
MaxIndex == 3

Max(a, b) == IF a >= b THEN a ELSE b

\* ------------------------------------------------------ RenderDataType

RenderDataTypes ==
    {"Float", "Int", "UInt", "Vector2Float", "Vector3Float", "Vector4Float",
     "Vector2UInt", "Vector3UInt", "Vector4UInt", "Matrix44Float"}

\* ============================================================
\*  GLAttributeBuffer
\* ============================================================

\* Device storage is counted in units of one element of the buffer's declared
\* type (a float for Float, a vec3 for Vector3Float, ...): every overload that
\* passes checkType writes elements that are a whole number of such units.

\* The contents of storage that glBufferData(..., NULL, ...) has just allocated,
\* and of a local the device never filled: not a value any caller supplied.
Garbage == -1

\* The field initialisers of AttributeBuffer (declared in the engine header):
\* no data yet, nothing allocated.
UnsetDataSize == -1
InitialBufferSize == 0

\* the setData overloads, by the C++ element type they take
SetForms ==
    {"vec2", "vec3", "arr2", "arr3", "arr4", "vec4", "float", "double",
     "int32", "uint32", "uvec2", "uvec3", "uvec4"}

\* the RenderDataType each setData overload hands to checkType
SetFormType(form) ==
    CASE form = "vec2" -> "Vector2Float"
      [] form \in {"vec3", "arr2", "arr3", "arr4"} -> "Vector3Float"
      [] form = "vec4" -> "Vector4Float"
      [] form \in {"float", "double"} -> "Float"
      [] form = "int32" -> "Int"
      [] form = "uint32" -> "UInt"
      [] form = "uvec2" -> "Vector2UInt"
      [] form = "uvec3" -> "Vector3UInt"
      [] form = "uvec4" -> "Vector4UInt"

\* the count each overload hands to checkArray; 0 when it calls no checkArray
SetFormArray(form) ==
    CASE form = "arr2" -> 2
      [] form = "arr3" -> 3
      [] form = "arr4" -> 4
      [] OTHER -> 0

\* sizeof(T) of an overload, in units of the declared type
SetFormUnits(form) == IF SetFormArray(form) = 0 THEN 1 ELSE SetFormArray(form)

\* static_cast<float>(double): the low bit of precision is lost
NarrowToFloat(v) == 2 * (v \div 2)

\* static_cast<double>(float): exact
WidenToDouble(v) == v

\* The sequences a caller supplies: n elements of k units each, flattened; every
\* position carries its own value, and sequences of different lengths share none.
InputData(n, k) == [p \in 1..(n * k) |-> 10 * n + p]

\* checkType passes
checkType(b, targetType) == b.dataType = targetType

\* checkArray passes
checkArray(b, testArrayCount) == testArrayCount = b.arrayCount

\* every check of one setData overload passes
SetFormAccepted(b, form) ==
    /\ checkType(b, SetFormType(form))
    /\ (SetFormArray(form) # 0 => checkArray(b, SetFormArray(form)))

\* the condition under which setData_helper reallocates
NeedsAlloc(b, n) == ~b.setFlag \/ n > b.bufferSize

NewSizeMut(n, bufferSize) == IF n <= 2 * bufferSize THEN n ELSE 2 * bufferSize

\* the size setData_helper allocates: when expanding, at least double
NewSize(n, bufferSize) == Max(n, 2 * bufferSize)

\* glBufferData(target, units, NULL, usage): fresh storage of undefined contents
BufferData(units) == [i \in 1..units |-> Garbage]

\* whether glBufferSubData / glGetBufferSubData of `units` units at unit offset
\* `off` lies within the allocated storage (else GL_INVALID_VALUE, nothing moved)
InStorage(mem, off, units) == off + units <= Len(mem)

BufferSubDataMut(mem, data) ==
    IF Len(data) = 0 THEN mem
    ELSE <<Garbage>> \o SubSeq(data, 2, Len(data)) \o SubSeq(mem, Len(data) + 1, Len(mem))

\* glBufferSubData(target, 0, |data|, data) on storage it fits in
BufferSubData(mem, data) == data \o SubSeq(mem, Len(data) + 1, Len(mem))

setData_helperMut(b, data, n, k) ==
    [b EXCEPT !.setFlag = TRUE,
              !.bufferSize = n,
              !.dataSize = n,
              !.mem = data,
              !.live = n * k]

\* setData_helper<T>(data), data holding n elements of k units: the buffer after it.
\* live is the number of leading units the call wrote; live, lastForm and lastGiven
\* (the overload and sequence of the last setData that returned) are history, not
\* C++ fields.
setData_helper(b, data, n, k) ==
    LET alloc == NeedsAlloc(b, n)
        newSize == NewSize(n, b.bufferSize)
        mem1 == IF alloc THEN BufferData(newSize * k) ELSE b.mem
        fits == InStorage(mem1, 0, n * k)
    IN  [b EXCEPT !.setFlag = TRUE,
                  !.bufferSize = IF alloc THEN newSize ELSE @,
                  !.dataSize = n,
                  !.mem = IF fits THEN BufferSubData(mem1, data) ELSE mem1,
                  !.live = IF fits THEN n * k ELSE 0]

\* whether the glBufferSubData of setData_helper raises GL_INVALID_VALUE
SetDataOverflows(b, n, k) ==
    LET alloc == NeedsAlloc(b, n)
        units == IF alloc THEN NewSize(n, b.bufferSize) * k ELSE Len(b.mem)
    IN  n * k > units

\* options::enableRenderErrorChecks is a global the application may flip between
\* any two calls: every call takes its current value, errChecks, as an input.

\* checkGLError(): throws iff checks are enabled and an error is pending
CheckGLErrorThrows(errChecks, pending) == errChecks /\ pending

\* the error flag after checkGLError(): glGetError clears what it reports
AfterCheckGLError(errChecks, pending) == IF errChecks THEN FALSE ELSE pending

\* GLAttributeBuffer::GLAttributeBuffer(dataType_, arrayCount_)
NewBuffer(dataType, arrayCount) ==
    [dataType |-> dataType, arrayCount |-> arrayCount, setFlag |-> FALSE,
     dataSize |-> UnsetDataSize, bufferSize |-> InitialBufferSize,
     mem |-> <<>>, live |-> 0, lastForm |-> "none", lastGiven |-> <<>>]

NoCall == [op |-> "none", kind |-> "none", a |-> 0, b |-> 0, status |-> "none", vals |-> <<>>]

\* what is recorded of a call that threw: which call, and which check threw
Failed(op, status) == [NoCall EXCEPT !.op = op, !.status = status]

\* GLAttributeBuffer::setData(const std::vector<T>&), one action for all overloads
SetData(form, n, errChecks) ==
    LET k == SetFormUnits(form)
        given == InputData(n, k)
        data == IF form = "double" THEN [p \in 1..Len(given) |-> NarrowToFloat(given[p])]
                ELSE given
        pending == glErr \/ SetDataOverflows(buf, n, k)
    IN  IF ~SetFormAccepted(buf, form)
        THEN /\ bufRes' = Failed("setData", "typeError")
             /\ UNCHANGED <<buf, glErr>>
        ELSE /\ buf' = [setData_helper(buf, data, n, k) EXCEPT
                         !.lastForm = IF CheckGLErrorThrows(errChecks, pending) THEN "none" ELSE form,
                         !.lastGiven = IF CheckGLErrorThrows(errChecks, pending) THEN <<>> ELSE given]
             /\ glErr' = AfterCheckGLError(errChecks, pending)
             /\ bufRes' = [op |-> "setData", kind |-> form, a |-> n, b |-> k,
                           status |-> IF CheckGLErrorThrows(errChecks, pending) THEN "glError" ELSE "ok",
                           vals |-> given]

\* ---- reads

ReadTypes ==
    {"float", "double", "vec2", "vec3", "vec4", "int", "uint32", "uvec2", "uvec3", "uvec4"}

\* the buffer type getData_<T> insists on
GetDataType(T) ==
    CASE T \in {"float", "double"} -> "Float"
      [] T = "vec2" -> "Vector2Float"
      [] T = "vec3" -> "Vector3Float"
      [] T = "vec4" -> "Vector4Float"
      [] T = "int" -> "Int"
      [] T = "uint32" -> "UInt"
      [] T = "uvec2" -> "Vector2Float"
      [] T = "uvec3" -> "Vector3Float"
      [] T = "uvec4" -> "Vector4Float"

\* the buffer type getDataRange_<T> insists on
GetDataRangeType(T) ==
    CASE T \in {"float", "double"} -> "Float"
      [] T = "vec2" -> "Vector2Float"
      [] T = "vec3" -> "Vector3Float"
      [] T = "vec4" -> "Vector4Float"
      [] T = "int" -> "Int"
      [] T = "uint32" -> "UInt"
      [] T = "uvec2" -> "Vector2UInt"
      [] T = "uvec3" -> "Vector3UInt"
      [] T = "uvec4" -> "Vector4UInt"

\* The value a read of C++ type T yields for the stored unit v: the bytes are
\* copied, so an unsigned read of float storage sees the float's bit pattern.
ReadAs(T, dataType, v) ==
    IF v = Garbage THEN Garbage
    ELSE IF T \in {"uvec2", "uvec3", "uvec4"}
            /\ dataType \in {"Vector2Float", "Vector3Float", "Vector4Float"}
         THEN v + 1000
         ELSE IF T = "double" THEN WidenToDouble(v) ELSE v

\* the guard of getData_helper: the read is let through
getData_bounds(b, ind) == b.setFlag /\ ~(ind >= b.dataSize * b.arrayCount)

\* the guard of getDataRange_helper: the read is let through
getDataRange_bounds(b, start, count) ==
    b.setFlag /\ ~(start + count > b.dataSize * b.arrayCount)

\* glGetBufferSubData of count units at unit offset start: out of the storage
\* nothing is copied (the destination keeps what it held) and GL_INVALID_VALUE is raised
GetBufferSubData(mem, start, count) ==
    IF InStorage(mem, start, count)
    THEN [i \in 1..count |-> mem[start + i]]
    ELSE [i \in 1..count |-> Garbage]

\* what a read hands back: the check that threw, or "ok" and the values
ReadResult(status, vals) == [status |-> status, vals |-> vals]

\* GLAttributeBuffer::getData_<T>(ind) on buffer b
getData(b, T, ind) ==
    IF b.dataType # GetDataType(T) THEN ReadResult("badType", <<>>)
    ELSE IF ~getData_bounds(b, ind) THEN ReadResult("badGetData", <<>>)
    ELSE ReadResult("ok", [i \in 1..1 |-> ReadAs(T, b.dataType, GetBufferSubData(b.mem, ind, 1)[i])])

\* GLAttributeBuffer::getDataRange_<T>(start, count) on buffer b
getDataRange(b, T, start, count) ==
    IF b.dataType # GetDataRangeType(T) THEN ReadResult("badType", <<>>)
    ELSE IF ~getDataRange_bounds(b, start, count) THEN ReadResult("badGetData", <<>>)
    ELSE ReadResult("ok", [i \in 1..count |->
             ReadAs(T, b.dataType, GetBufferSubData(b.mem, start, count)[i])])

\* the call getData_<T>(ind) on the buffer
GetData(T, ind) ==
    LET r == getData(buf, T, ind)
    IN  /\ bufRes' = IF r.status = "ok"
                     THEN [op |-> "getData", kind |-> T, a |-> ind, b |-> 1,
                           status |-> "ok", vals |-> r.vals]
                     ELSE Failed("getData", r.status)
        /\ glErr' = (glErr \/ (r.status = "ok" /\ ~InStorage(buf.mem, ind, 1)))
        /\ UNCHANGED buf

\* the call getDataRange_<T>(start, count) on the buffer
GetDataRange(T, start, count) ==
    LET r == getDataRange(buf, T, start, count)
    IN  /\ bufRes' = IF r.status = "ok"
                     THEN [op |-> "getDataRange", kind |-> T, a |-> start, b |-> count,
                           status |-> "ok", vals |-> r.vals]
                     ELSE Failed("getDataRange", r.status)
        /\ glErr' = (glErr \/ (r.status = "ok" /\ ~InStorage(buf.mem, start, count)))
        /\ UNCHANGED buf

\* ============================================================
\*  GLEngine: registries, cache key, getCompiledProgram, requestShader
\* ============================================================

\* largest number of entries the cache is let grow to
MaxCompiled == 2

\* a null std::shared_ptr<GLCompiledProgram>
NullProgram == 0

DefaultsPresets == {"SceneObject", "SceneObjectNoSlice", "Pick", "Process", "None"}

\* The engine's default rule lists (members of the Engine base class, filled in
\* the engine header).
defaultRules_sceneObject == <<"G", "SLICE_PLANE_S">>
defaultRules_pick == <<"G", "A">>
defaultRules_process == <<"G">>

\* s.rfind(prefix, 0) == 0
StartsWith(s, prefix) == Len(s) >= Len(prefix) /\ SubSeq(s, 1, Len(prefix)) = prefix

\* the rules of a list whose name does not start with SLICE_PLANE_, in order
RECURSIVE WithoutSlicePlanes(_)
WithoutSlicePlanes(list) ==
    IF list = <<>> THEN <<>>
    ELSE (IF ~StartsWith(Head(list), "SLICE_PLANE_") THEN <<Head(list)>> ELSE <<>>)
             \o WithoutSlicePlanes(Tail(list))

\* the default rules a preset stands for (the switch of both functions below)
ExpandDefaults(defaults) ==
    CASE defaults = "SceneObject" -> defaultRules_sceneObject
      [] defaults = "SceneObjectNoSlice" -> WithoutSlicePlanes(defaultRules_sceneObject)
      [] defaults = "Pick" -> defaultRules_pick
      [] defaults = "Process" -> defaultRules_process
      [] defaults = "None" -> <<>>

\* for (s : list) builder << s << "# "
RECURSIVE JoinRules(_)
JoinRules(list) ==
    IF list = <<>> THEN "" ELSE Head(list) \o "# " \o JoinRules(Tail(list))

\* GLEngine::programKeyFromRules
programKeyFromRules(programName, rules, defaults) ==
    "$PROGRAMNAME: " \o programName \o "#" \o "  $RULES: " \o JoinRules(rules)
        \o "  $DEFAULTS: " \o JoinRules(ExpandDefaults(defaults))

\* std::find(list.begin(), it, name) != it, for it at position i: seen before i
SeenBefore(list, i) == \E j \in 1..(i - 1) : list[j] = list[i]

\* the loop without its test for names seen before
RECURSIVE PrepareRulesMut(_, _, _)
PrepareRulesMut(list, i, reg) ==
    IF i > Len(list) THEN [ok |-> TRUE, rules |-> <<>>]
    ELSE IF list[i] = "" THEN PrepareRulesMut(list, i + 1, reg)
    ELSE IF list[i] \notin DOMAIN reg THEN [ok |-> FALSE, rules |-> <<list[i]>>]
    ELSE LET rest == PrepareRulesMut(list, i + 1, reg)
         IN  IF rest.ok THEN [ok |-> TRUE, rules |-> <<list[i]>> \o rest.rules] ELSE rest

\* The loop of getCompiledProgram over fullCustomRules from position i on, with the
\* registered rules `reg`: the names handed on, or the first name it throws for.
RECURSIVE PrepareRules(_, _, _)
PrepareRules(list, i, reg) ==
    IF i > Len(list) THEN [ok |-> TRUE, rules |-> <<>>]
    ELSE IF list[i] = "" \/ SeenBefore(list, i) THEN PrepareRules(list, i + 1, reg)
    ELSE IF list[i] \notin DOMAIN reg THEN [ok |-> FALSE, rules |-> <<list[i]>>]
    ELSE LET rest == PrepareRules(list, i + 1, reg)
         IN  IF rest.ok THEN [ok |-> TRUE, rules |-> <<list[i]>> \o rest.rules] ELSE rest

\* ---- shader stage specifications and replacement rules (the shader library)

Uniform(name, type) == [name |-> name, type |-> type]
Attribute(name, type, arrayCount) == [name |-> name, type |-> type, arrayCount |-> arrayCount]
Texture(name, dim) == [name |-> name, dim |-> dim]

\* a vertex stage reading positions and a fragment stage with a colour and a
\* material texture
LibraryStages ==
    << [uniforms |-> <<Uniform("u_modelView", "Matrix44Float")>>,
        attributes |-> <<Attribute("a_position", "Vector3Float", 1)>>,
        textures |-> <<>>],
       [uniforms |-> <<Uniform("u_color", "Vector3Float")>>,
        attributes |-> <<>>,
        textures |-> <<Texture("t_mat", 2)>>] >>

\* a program whose stages declare no attribute at all
StagesNoAttributes ==
    << [uniforms |-> <<Uniform("u_color", "Vector3Float")>>,
        attributes |-> <<>>,
        textures |-> <<>>] >>

\* replacement rules, by what they add to a stage's interface; a rule name is
\* any string the caller of registerShaderRule chooses
RuleNames == {"A", "A# A", "G", "SLICE_PLANE_S"}

ShaderReplacementRule(r) ==
    CASE r = "A" -> [uniforms |-> <<>>,
                     attributes |-> <<Attribute("a_value", "Float", 1)>>,
                     textures |-> <<Texture("t_colormap", 1)>>]
      [] r = "A# A" -> [uniforms |-> <<Uniform("u_range", "Vector2Float")>>,
                        attributes |-> <<>>, textures |-> <<>>]
      [] r = "G" -> [uniforms |-> <<Uniform("u_viewport", "Vector4Float")>>,
                     attributes |-> <<>>, textures |-> <<>>]
      [] r = "SLICE_PLANE_S" -> [uniforms |-> <<Uniform("u_slicePlane", "Vector4Float")>>,
                                 attributes |-> <<>>, textures |-> <<>>]

\* the rules registered at start-up
LibraryRules == [r \in {"A", "G", "SLICE_PLANE_S"} |-> ShaderReplacementRule(r)]

\* applyShaderReplacements(stages, rules) as far as the declared interface goes:
\* every rule's uniforms, attributes and textures are appended to every stage
RECURSIVE RuleAdditions(_, _, _)
RuleAdditions(rules, reg, field) ==
    IF rules = <<>> THEN <<>>
    ELSE reg[Head(rules)][field] \o RuleAdditions(Tail(rules), reg, field)

applyShaderReplacements(stages, rules, reg) ==
    [i \in 1..Len(stages) |->
        [uniforms |-> stages[i].uniforms \o RuleAdditions(rules, reg, "uniforms"),
         attributes |-> stages[i].attributes \o RuleAdditions(rules, reg, "attributes"),
         textures |-> stages[i].textures \o RuleAdditions(rules, reg, "textures")]]

\* ---- GLCompiledProgram

AddUniqueMut(acc, new, field) ==
    IF ~acc.ok THEN acc
    ELSE IF \E i \in 1..Len(acc.list) : acc.list[i] = new THEN acc
    ELSE [ok |-> TRUE, list |-> Append(acc.list, new)]

\* addUniqueUniform / addUniqueAttribute (compared on type) and addUniqueTexture
\* (compared on dim): the list after the call, or a clash
AddUnique(acc, new, field) ==
    IF ~acc.ok THEN acc
    ELSE IF \E i \in 1..Len(acc.list) : acc.list[i].name = new.name
         THEN IF \E i \in 1..Len(acc.list) :
                    acc.list[i].name = new.name /\ acc.list[i][field] # new[field]
              THEN [ok |-> FALSE, list |-> acc.list]
              ELSE acc
         ELSE [ok |-> TRUE, list |-> Append(acc.list, new)]

RECURSIVE AddAllUnique(_, _, _)
AddAllUnique(acc, news, field) ==
    IF news = <<>> THEN acc
    ELSE AddAllUnique(AddUnique(acc, Head(news), field), Tail(news), field)

\* the collecting loop of the constructor over the stages
RECURSIVE CollectInterface(_, _)
CollectInterface(stages, acc) ==
    IF stages = <<>> THEN acc
    ELSE LET s == Head(stages)
             u == AddAllUnique([ok |-> acc.ok, list |-> acc.uniforms], s.uniforms, "type")
             a == AddAllUnique([ok |-> u.ok, list |-> acc.attributes], s.attributes, "type")
             t == AddAllUnique([ok |-> a.ok, list |-> acc.textures], s.textures, "dim")
         IN  CollectInterface(Tail(stages),
                 [ok |-> t.ok, uniforms |-> u.list, attributes |-> a.list, textures |-> t.list])

\* what the device does with the sources: compile and link, or fail one of them
BuildOutcomes == {"ok", "compileFailed", "linkFailed"}

NewCompiledProgramMut(stages, dm, built) ==
    LET c == CollectInterface(stages,
                 [ok |-> TRUE, uniforms |-> <<>>, attributes |-> <<>>, textures |-> <<>>])
    IN  IF ~c.ok THEN [status |-> "nameClash"]
        ELSE IF built # "ok" THEN [status |-> built]
        ELSE IF Len(c.attributes) = 0 THEN [status |-> "noAttributes"]
        ELSE [status |-> "ok", drawMode |-> dm, uniforms |-> c.uniforms,
              attributes |-> c.attributes, textures |-> c.textures]

\* GLCompiledProgram::GLCompiledProgram(stages, dm): the object, or why it threw
NewCompiledProgram(stages, dm, built) ==
    LET c == CollectInterface(stages,
                 [ok |-> TRUE, uniforms |-> <<>>, attributes |-> <<>>, textures |-> <<>>])
    IN  IF ~c.ok THEN [status |-> "nameClash"]
        ELSE IF Len(c.attributes) = 0 THEN [status |-> "noAttributes"]
        ELSE IF built # "ok" THEN [status |-> built]
        ELSE [status |-> "ok", drawMode |-> dm, uniforms |-> c.uniforms,
              attributes |-> c.attributes, textures |-> c.textures]

\* ---- the constructor on its own

\* what a stage may declare: nothing, a name, the same name with another type
\* (another dimension, for a texture), two names
UniformDeclarations ==
    { <<>>, <<Uniform("u_color", "Vector3Float")>>, <<Uniform("u_color", "Float")>>,
      <<Uniform("u_range", "Vector2Float"), Uniform("u_color", "Vector3Float")>> }

AttributeDeclarations ==
    { <<>>, <<Attribute("a_position", "Vector3Float", 1)>>,
      <<Attribute("a_position", "Float", 1)>> }

TextureDeclarations == { <<>>, <<Texture("t_mat", 2)>>, <<Texture("t_mat", 1)>> }

StageSpecifications ==
    [uniforms : UniformDeclarations, attributes : AttributeDeclarations,
     textures : TextureDeclarations]

\* the stage lists handed to the constructor: one stage, or two
StageLists ==
    {<<s>> : s \in StageSpecifications}
        \cup {<<s1, s2>> : s1 \in StageSpecifications, s2 \in StageSpecifications}

NoConstruction == [stages |-> <<>>, result |-> [status |-> "none"]]

\* new GLCompiledProgram(stages, dm): an object is constructed once
Construct(stages, dm, built) ==
    /\ construction = NoConstruction
    /\ construction' = [stages |-> stages, result |-> NewCompiledProgram(stages, dm, built)]

CtorInit == construction = NoConstruction

\* no constructor call in play
CtorIdle == construction = NoConstruction

\* ---- the engine

ProgNames == {"P", "Q"}

\* the rule-name lists callers pass: "X" is registered nowhere, "" is the no-op
RuleLists ==
    { <<>>, <<"">>, <<"A">>, <<"A", "A">>, <<"A# A">>, <<"A", "X">> }

\* the requests callers make: every rule list with and without the scene-object
\* defaults, and every preset with no custom rule
Requests ==
    ({"P"} \X RuleLists \X {"None", "SceneObject"})
        \cup (ProgNames \X {<<>>} \X DefaultsPresets)

NoRequest ==
    [op |-> "none", programName |-> "", rules |-> <<>>, defaults |-> "None",
     status |-> "none", prog |-> NullProgram]

\* what is recorded of a request that returned an instance
Served(programName, customRules, defaults, compiledProgram) ==
    [op |-> "requestShader", programName |-> programName, rules |-> customRules,
     defaults |-> defaults, status |-> "ok", prog |-> compiledProgram]

\* what is recorded of a request that threw
Refused(status) == [NoRequest EXCEPT !.op = "requestShader", !.status = status]

\* getCompiledProgram without its cache lookup: the program is built for every
\* request
RequestShaderMut(programName, customRules, defaults) ==
    LET progKey == programKeyFromRules(programName, customRules, defaults)
        prep == PrepareRules(customRules \o ExpandDefaults(defaults), 1, registeredShaderRules)
        new == NewCompiledProgram(
                   applyShaderReplacements(registeredShaderPrograms[programName].stages,
                                           prep.rules, registeredShaderRules),
                   registeredShaderPrograms[programName].drawMode, "ok")
    IN  /\ programName \in DOMAIN registeredShaderPrograms
        /\ prep.ok
        /\ new.status = "ok"
        /\ compiled' = Append(compiled, new)
        /\ compiledProgamCache' =
                [k \in DOMAIN compiledProgamCache \cup {progKey} |->
                    IF k = progKey THEN Len(compiled) + 1 ELSE compiledProgamCache[k]]
        /\ engRes' = Served(programName, customRules, defaults, Len(compiled) + 1)
        /\ UNCHANGED <<registeredShaderPrograms, registeredShaderRules>>

\* GLEngine::requestShader(programName, customRules, defaults): getCompiledProgram
\* and the instance built on what it returns. `built` is the device's verdict on
\* the sources; `early` is whether compiledProgamCache[progKey] is evaluated before
\* the new-expression assigned to it (the order is the compiler's choice).
RequestShader(programName, customRules, defaults) ==
    LET progKey == programKeyFromRules(programName, customRules, defaults)
    IN  IF progKey \in DOMAIN compiledProgamCache
        THEN /\ engRes' = IF compiledProgamCache[progKey] = NullProgram
                          THEN Refused("nullProgram")
                          ELSE Served(programName, customRules, defaults,
                                      compiledProgamCache[progKey])
             /\ UNCHANGED <<registeredShaderPrograms, registeredShaderRules,
                            compiledProgamCache, compiled>>
        ELSE IF programName \notin DOMAIN registeredShaderPrograms
        THEN /\ engRes' = Refused("noProgram")
             /\ UNCHANGED <<registeredShaderPrograms, registeredShaderRules,
                            compiledProgamCache, compiled>>
        ELSE LET fullCustomRules == customRules \o ExpandDefaults(defaults)
                 prep == PrepareRules(fullCustomRules, 1, registeredShaderRules)
                 stages == registeredShaderPrograms[programName].stages
                 dm == registeredShaderPrograms[programName].drawMode
             IN  IF ~prep.ok
                 THEN /\ engRes' = Refused("noRule")
                      /\ UNCHANGED <<registeredShaderPrograms, registeredShaderRules,
                                     compiledProgamCache, compiled>>
                 ELSE \E built \in BuildOutcomes, early \in BOOLEAN :
                      LET new == NewCompiledProgram(
                                     applyShaderReplacements(stages, prep.rules,
                                                             registeredShaderRules),
                                     dm, built)
                      IN  /\ Cardinality(DOMAIN compiledProgamCache) < MaxCompiled
                          /\ IF new.status = "ok"
                             THEN /\ compiled' = Append(compiled, new)
                                  /\ compiledProgamCache' =
                                        [k \in DOMAIN compiledProgamCache \cup {progKey} |->
                                            IF k = progKey THEN Len(compiled) + 1
                                            ELSE compiledProgamCache[k]]
                                  /\ engRes' = Served(programName, customRules, defaults,
                                                      Len(compiled) + 1)
                             ELSE /\ compiled' = compiled
                                  /\ compiledProgamCache' =
                                        IF early
                                        THEN [k \in DOMAIN compiledProgamCache \cup {progKey} |->
                                                IF k = progKey THEN NullProgram
                                                ELSE compiledProgamCache[k]]
                                        ELSE compiledProgamCache
                                  /\ engRes' = Refused(new.status)
                          /\ UNCHANGED <<registeredShaderPrograms, registeredShaderRules>>

\* std::map::insert: a name already present keeps its old value
MapInsert(m, key, value) ==
    IF key \in DOMAIN m THEN m
    ELSE [k \in DOMAIN m \cup {key} |-> IF k = key THEN value ELSE m[k]]

\* GLEngine::registerShaderProgram(name, spec, dm)
RegisterShaderProgram(name, stages, dm) ==
    /\ registeredShaderPrograms' =
            MapInsert(registeredShaderPrograms, name, [stages |-> stages, drawMode |-> dm])
    /\ engRes' = [NoRequest EXCEPT !.op = "registerShaderProgram", !.status = "ok"]
    /\ UNCHANGED <<registeredShaderRules, compiledProgamCache, compiled>>

\* GLEngine::registerShaderRule(name, rule)
RegisterShaderRule(name, rule) ==
    /\ registeredShaderRules' = MapInsert(registeredShaderRules, name, rule)
    /\ engRes' = [NoRequest EXCEPT !.op = "registerShaderRule", !.status = "ok"]
    /\ UNCHANGED <<registeredShaderPrograms, compiledProgamCache, compiled>>

\* the engine after populateDefaultShadersAndRules: the library registered,
\* nothing compiled
EngInit ==
    /\ registeredShaderPrograms = [n \in {"P"} |-> [stages |-> LibraryStages, drawMode |-> "Triangles"]]
    /\ registeredShaderRules = LibraryRules
    /\ compiledProgamCache = <<>>
    /\ compiled = <<>>
    /\ engRes = NoRequest


\* ============================================================
\*  GLShaderProgram: one instance
\* ============================================================

\* a null pointer, the pointer to an object, the object pointed to
Null == <<>>
PointerTo(obj) == <<obj>>
Deref(p) == p[1]

\* the location of a name the device did not resolve (optimized out)
NoLocation == -1

\* The number of values of an unsigned int. The model's word is 16 bits wide, not
\* 32: TLC's integers end below 2^32, and no count here comes near 2^16.
UIntModulus == 65536

\* the 'no value' of a 32-bit index: the largest unsigned int
INVALID_IND_32 == UIntModulus - 1

\* static_cast<unsigned int>(v)
ToUInt32(v) == v % UIntModulus

\* the flag of the ShaderProgram base class: the mode draws through an index buffer
UseIndex(dm) ==
    dm \in {"IndexedLines", "IndexedLineStrip", "IndexedLinesAdjacency",
            "IndexedLineStripAdjacency", "IndexedTriangles"}

Instanced(dm) == dm \in {"TrianglesInstanced", "TriangleStripInstanced"}

\* renderDataTypeCountCompatbility(r1, r2): how many elements of buffer type r2
\* make one element of attribute type r1; 0 when r2 cannot feed r1
renderDataTypeCountCompatbility(r1, r2) ==
    IF r1 = r2 THEN 1
    ELSE IF r2 = "Float" /\ r1 = "Vector2Float" THEN 2
    ELSE IF r2 = "Float" /\ r1 = "Vector3Float" THEN 3
    ELSE IF r2 = "Float" /\ r1 = "Vector4Float" THEN 4
    ELSE IF r2 = "UInt" /\ r1 = "Vector2UInt" THEN 2
    ELSE IF r2 = "UInt" /\ r1 = "Vector3UInt" THEN 3
    ELSE IF r2 = "UInt" /\ r1 = "Vector4UInt" THEN 4
    ELSE 0

\* GLCompiledProgram::setDataLocations: each name's location as the device
\* reports it, NoLocation for the names in optimizedOut
Location(name, optimizedOut) == IF name \in optimizedOut THEN NoLocation ELSE 0

\* GLShaderProgram::GLShaderProgram(compiledProgram): the lists copied from the
\* compiled program, nothing set, no buffer, no index buffer, no instance count
NewShaderProgram(c, optimizedOut) ==
    [drawMode |-> c.drawMode,
     uniforms |-> [i \in 1..Len(c.uniforms) |->
                     [name |-> c.uniforms[i].name, type |-> c.uniforms[i].type,
                      location |-> Location(c.uniforms[i].name, optimizedOut),
                      isSet |-> FALSE]],
     attributes |-> [i \in 1..Len(c.attributes) |->
                     [name |-> c.attributes[i].name, type |-> c.attributes[i].type,
                      arrayCount |-> c.attributes[i].arrayCount,
                      location |-> Location(c.attributes[i].name, optimizedOut),
                      buff |-> Null]],
     textures |-> [i \in 1..Len(c.textures) |->
                     [name |-> c.textures[i].name, dim |-> c.textures[i].dim,
                      location |-> Location(c.textures[i].name, optimizedOut),
                      isSet |-> FALSE, textureBuffer |-> "null"]],
     indexBuffer |-> Null,
     indexSizeMult |-> 0,
     instanceCount |-> INVALID_IND_32,
     drawDataLength |-> 0]

\* the position of the first entry of a list that has the name, 0 if none has
FirstNamed(list, name) ==
    IF \E i \in 1..Len(list) : list[i].name = name
    THEN CHOOSE i \in 1..Len(list) :
            list[i].name = name /\ \A j \in 1..(i - 1) : list[j].name # name
    ELSE 0

\* the position of the first entry that has the name and a location, 0 if none
FirstResolved(list, name) ==
    IF \E i \in 1..Len(list) : list[i].name = name /\ list[i].location # NoLocation
    THEN CHOOSE i \in 1..Len(list) :
            /\ list[i].name = name /\ list[i].location # NoLocation
            /\ \A j \in 1..(i - 1) : ~(list[j].name = name /\ list[j].location # NoLocation)
    ELSE 0

\* GLShaderProgram::hasUniform / hasAttribute / hasTexture
hasUniform(p, name) == FirstResolved(p.uniforms, name) # 0
hasAttribute(p, name) == FirstResolved(p.attributes, name) # 0
hasTexture(p, name) == FirstResolved(p.textures, name) # 0

\* what is recorded of a call on the instance: the call, how it ended ("ok" or
\* the check that threw), whether the name it was given is declared but has no
\* location, and whether the instance changed
NoProgCall == [op |-> "none", status |-> "none", optimizedOut |-> FALSE, changed |-> FALSE]

ProgCall(op, status, list, name, after) ==
    [op |-> op, status |-> status,
     optimizedOut |-> (\E i \in 1..Len(list) : list[i].name = name)
                        /\ \A i \in 1..Len(list) :
                              list[i].name = name => list[i].location = NoLocation,
     changed |-> after # prog]

SetUniformMut(name, T) ==
    LET i == FirstNamed(prog.uniforms, name)
        status == IF i = 0 THEN "noSuchUniform"
                  ELSE IF prog.uniforms[i].location = NoLocation THEN "ok"
                  ELSE IF prog.uniforms[i].type = T THEN "ok"
                  ELSE "wrongType"
        after == IF i # 0 /\ prog.uniforms[i].location # NoLocation
                 THEN [prog EXCEPT !.uniforms[i].isSet = TRUE]
                 ELSE prog
    IN  /\ prog' = after
        /\ progRes' = ProgCall("setUniform", status, prog.uniforms, name, after)

\* GLShaderProgram::setUniform(name, val), one action for all overloads: T is the
\* RenderDataType the overload insists on
SetUniform(name, T) ==
    LET i == FirstNamed(prog.uniforms, name)
        status == IF i = 0 THEN "noSuchUniform"
                  ELSE IF prog.uniforms[i].location = NoLocation THEN "ok"
                  ELSE IF prog.uniforms[i].type = T THEN "ok"
                  ELSE "wrongType"
        after == IF i # 0 /\ status = "ok" /\ prog.uniforms[i].location # NoLocation
                 THEN [prog EXCEPT !.uniforms[i].isSet = TRUE]
                 ELSE prog
    IN  /\ prog' = after
        /\ progRes' = ProgCall("setUniform", status, prog.uniforms, name, after)

\* the switch of assignBufferToVAO has no case for this attribute type
UnrecognizedAttributeType(type) == type = "Matrix44Float"

SetAttributeDataMut(name, form, n) ==
    LET i == FirstResolved(prog.attributes, name)
        a == prog.attributes[i]
        b == NewBuffer(a.type, a.arrayCount)
        k == SetFormUnits(form)
        given == InputData(n, k)
        status == IF i = 0 THEN "noSuchAttribute"
                  ELSE IF UnrecognizedAttributeType(a.type) THEN "unrecognizedType"
                  ELSE IF ~SetFormAccepted(b, form) THEN "typeError"
                  ELSE "ok"
        after == IF i = 0 THEN prog
                 ELSE [prog EXCEPT !.attributes[i].buff =
                          PointerTo(IF status = "ok" THEN setData_helper(b, given, n, k) ELSE b)]
    IN  /\ prog' = after
        /\ progRes' = ProgCall("setAttribute", status, prog.attributes, name, after)

\* GLShaderProgram::setAttribute(name, const std::vector<T>& data), one action for
\* all overloads: ensureBufferExists, then the buffer's setData
SetAttributeData(name, form, n) ==
    LET i == FirstResolved(prog.attributes, name)
        a == prog.attributes[i]
        create == a.buff = Null
        b == IF create THEN NewBuffer(a.type, a.arrayCount) ELSE Deref(a.buff)
        k == SetFormUnits(form)
        given == InputData(n, k)
        data == IF form = "double" THEN [q \in 1..Len(given) |-> NarrowToFloat(given[q])]
                ELSE given
        status == IF i = 0 THEN "noSuchAttribute"
                  ELSE IF create /\ UnrecognizedAttributeType(a.type) THEN "unrecognizedType"
                  ELSE IF ~SetFormAccepted(b, form) THEN "typeError"
                  ELSE "ok"
        after == IF i = 0 THEN prog
                 ELSE [prog EXCEPT !.attributes[i].buff =
                          PointerTo(IF status = "ok" THEN setData_helper(b, data, n, k) ELSE b)]
    IN  /\ prog' = after
        /\ progRes' = ProgCall("setAttribute", status, prog.attributes, name, after)

\* GLShaderProgram::setAttribute(name, externalBuffer)
SetAttributeExternal(name, externalBuffer) ==
    LET i == FirstNamed(prog.attributes, name)
        a == prog.attributes[i]
        status == IF i = 0 THEN "noSuchAttribute"
                  ELSE IF a.location = NoLocation THEN "ok"
                  ELSE IF renderDataTypeCountCompatbility(a.type, externalBuffer.dataType) = 0
                       THEN "incompatibleType"
                  ELSE IF a.buff # Null THEN "alreadySet"
                  ELSE IF UnrecognizedAttributeType(a.type) THEN "unrecognizedType"
                  ELSE "ok"
        after == IF i # 0 /\ a.location # NoLocation /\ status \in {"ok", "unrecognizedType"}
                 THEN [prog EXCEPT !.attributes[i].buff = PointerTo(externalBuffer)]
                 ELSE prog
    IN  /\ prog' = after
        /\ progRes' = ProgCall("setAttributeExternal", status, prog.attributes, name, after)

\* GLShaderProgram::setTexture1D
SetTexture1D(name) ==
    /\ prog' = prog
    /\ progRes' = ProgCall("setTexture1D", "untested", prog.textures, name, prog)

\* GLShaderProgram::setTexture2D
SetTexture2D(name) ==
    LET i == FirstResolved(prog.textures, name)
        status == IF i = 0 THEN "noSuchTexture"
                  ELSE IF prog.textures[i].isSet THEN "setTwice"
                  ELSE IF prog.textures[i].dim # 2 THEN "badDimension"
                  ELSE "ok"
        after == IF status = "ok"
                 THEN [prog EXCEPT !.textures[i].isSet = TRUE,
                                   !.textures[i].textureBuffer = "owned"]
                 ELSE prog
    IN  /\ prog' = after
        /\ progRes' = ProgCall("setTexture2D", status, prog.textures, name, after)

\* GLShaderProgram::setTextureFromBuffer(name, textureBuffer): a buffer of
\* dimension dim; foreign when it is not a GLTextureBuffer (the cast yields null)
SetTextureFromBuffer(name, dim, foreign) ==
    LET i == FirstResolved(prog.textures, name)
        status == IF i = 0 THEN "noSuchTexture"
                  ELSE IF prog.textures[i].dim # dim THEN "badDimension"
                  ELSE IF foreign THEN "badTexture"
                  ELSE "ok"
        after == IF status = "badTexture"
                 THEN [prog EXCEPT !.textures[i].textureBuffer = "null"]
                 ELSE IF status = "ok"
                 THEN [prog EXCEPT !.textures[i].isSet = TRUE,
                                   !.textures[i].textureBuffer = "external"]
                 ELSE prog
    IN  /\ prog' = after
        /\ progRes' = ProgCall("setTextureFromBuffer", status, prog.textures, name, after)

\* GLShaderProgram::setTextureFromColormap(name, colormapName, allowUpdate), the
\* colormap being one the engine knows
SetTextureFromColormap(name, allowUpdate) ==
    LET i == FirstResolved(prog.textures, name)
        status == IF i = 0 THEN "noSuchTexture"
                  ELSE IF prog.textures[i].isSet /\ ~allowUpdate THEN "setTwice"
                  ELSE IF prog.textures[i].dim # 1 THEN "badDimension"
                  ELSE "ok"
        after == IF status = "ok"
                 THEN [prog EXCEPT !.textures[i].isSet = TRUE,
                                   !.textures[i].textureBuffer = "owned"]
                 ELSE prog
    IN  /\ prog' = after
        /\ progRes' = ProgCall("setTextureFromColormap", status, prog.textures, name, after)

\* the multiplicity setIndex derives from the buffer's type; 0: not an integer type
IndexSizeMult(dataType) ==
    CASE dataType \in {"Int", "UInt"} -> 1
      [] dataType = "Vector2UInt" -> 2
      [] dataType = "Vector3UInt" -> 3
      [] dataType = "Vector4UInt" -> 4
      [] OTHER -> 0

SetIndexMut(externalBuffer) ==
    LET status == IF ~UseIndex(prog.drawMode) THEN "notIndexed"
                  ELSE IF IndexSizeMult(externalBuffer.dataType) = 0 THEN "indexNotInteger"
                  ELSE "ok"
        after == IF UseIndex(prog.drawMode)
                 THEN [prog EXCEPT !.indexSizeMult = IndexSizeMult(externalBuffer.dataType),
                                   !.indexBuffer = PointerTo(externalBuffer)]
                 ELSE prog
    IN  /\ prog' = after
        /\ progRes' = ProgCall("setIndex", status, <<>>, "", after)

\* GLShaderProgram::setIndex(externalBuffer)
SetIndex(externalBuffer) ==
    LET status == IF ~UseIndex(prog.drawMode) THEN "notIndexed"
                  ELSE IF IndexSizeMult(externalBuffer.dataType) = 0 THEN "indexNotInteger"
                  ELSE "ok"
        after == IF status = "ok"
                 THEN [prog EXCEPT !.indexSizeMult = IndexSizeMult(externalBuffer.dataType),
                                   !.indexBuffer = PointerTo(externalBuffer)]
                 ELSE prog
    IN  /\ prog' = after
        /\ progRes' = ProgCall("setIndex", status, <<>>, "", after)

\* GLShaderProgram::setInstanceCount(instanceCount_)
SetInstanceCount(instanceCount_) ==
    LET after == [prog EXCEPT !.instanceCount = instanceCount_]
    IN  /\ prog' = after
        /\ progRes' = ProgCall("setInstanceCount", "ok", <<>>, "", after)

\* ---- validateData

\* the first pending complaint of a loop that throws for every resolved entry
\* which is not set, "ok" if it throws for none
UnsetComplaint(list, complaint) ==
    IF \E i \in 1..Len(list) : list[i].location # NoLocation /\ ~list[i].isSet
    THEN complaint ELSE "ok"

\* a.buff->getDataSize() / compatCount, the division truncating
ScaledSize(a) ==
    Deref(a.buff).dataSize \div renderDataTypeCountCompatbility(a.type, Deref(a.buff).dataType)

\* the attribute loop of validateData from position i on, attributeSize being
\* the size seen so far (-1: none seen): how the loop ends, and the size it leaves
RECURSIVE CheckAttributes(_, _, _)
CheckAttributes(attrs, i, attributeSize) ==
    IF i > Len(attrs) THEN [status |-> "ok", attributeSize |-> attributeSize]
    ELSE IF attrs[i].location = NoLocation THEN CheckAttributes(attrs, i + 1, attributeSize)
    ELSE IF attrs[i].buff = Null THEN [status |-> "noBuffer", attributeSize |-> attributeSize]
    ELSE IF Deref(attrs[i].buff).dataSize < 0
         THEN [status |-> "attributeNotSet", attributeSize |-> attributeSize]
    ELSE IF renderDataTypeCountCompatbility(attrs[i].type, Deref(attrs[i].buff).dataType) = 0
         THEN [status |-> "divisionByZero", attributeSize |-> attributeSize]
    ELSE IF attributeSize = -1
         THEN CheckAttributes(attrs, i + 1, ScaledSize(attrs[i]))
    ELSE IF ScaledSize(attrs[i]) # attributeSize
         THEN [status |-> "inconsistentSize", attributeSize |-> attributeSize]
    ELSE CheckAttributes(attrs, i + 1, attributeSize)

validateDataMut(p) ==
    LET attrs == CheckAttributes(p.attributes, 1, -1)
    IN  [status |-> attrs.status, drawDataLength |-> ToUInt32(attrs.attributeSize)]

\* GLShaderProgram::validateData on instance p: "ok" or the check that threw, and
\* the draw length the call leaves
validateData(p) ==
    LET attrs == CheckAttributes(p.attributes, 1, -1)
        length == IF UseIndex(p.drawMode)
                  THEN ToUInt32(p.indexSizeMult * Deref(p.indexBuffer).dataSize)
                  ELSE ToUInt32(attrs.attributeSize)
    IN  IF UnsetComplaint(p.uniforms, "uniformNotSet") # "ok"
        THEN [status |-> "uniformNotSet", drawDataLength |-> p.drawDataLength]
        ELSE IF attrs.status # "ok"
        THEN [status |-> attrs.status, drawDataLength |-> p.drawDataLength]
        ELSE IF UnsetComplaint(p.textures, "textureNotSet") # "ok"
        THEN [status |-> "textureNotSet", drawDataLength |-> p.drawDataLength]
        ELSE IF UseIndex(p.drawMode) /\ p.indexBuffer = Null
        THEN [status |-> "noIndexBuffer", drawDataLength |-> p.drawDataLength]
        ELSE IF Instanced(p.drawMode) /\ p.instanceCount = INVALID_IND_32
        THEN [status |-> "noInstanceCount", drawDataLength |-> length]
        ELSE [status |-> "ok", drawDataLength |-> length]

\* the call validateData() on the instance
ValidateData ==
    LET v == validateData(prog)
        after == [prog EXCEPT !.drawDataLength = v.drawDataLength]
    IN  /\ prog' = after
        /\ progRes' = ProgCall("validateData", v.status, <<>>, "", after)

\* ---- the instances and inputs of the checks

\* the compiled program the instance wraps: the library's stages with rule A
\* applied, built for draw mode dm
WrappedProgram(dm) ==
    NewCompiledProgram(applyShaderReplacements(LibraryStages, <<"A">>, LibraryRules), dm, "ok")

\* the instances of the checks: a draw mode, and the names the device left
\* without a location
Instances ==
    { <<"Triangles", {"u_modelView", "u_color", "t_mat", "t_colormap"}>>,
      <<"IndexedTriangles", {"u_modelView", "a_value", "t_colormap"}>>,
      <<"TrianglesInstanced", {"u_modelView", "a_position", "t_mat"}>> }

UniformNames == {"u_color", "u_modelView", "u_none"}
UniformTypes == {"Vector3Float", "Matrix44Float"}
AttributeNames == {"a_position", "a_value", "a_none"}
AttributeForms == {"vec3", "float"}
TextureNames == {"t_mat", "t_colormap", "t_none"}

\* the longest sequence written to an attribute or index buffer
MaxAttributeLen == 4

\* the lengths of the sequences written to them
AttributeLens == {1, MaxAttributeLen}

\* the buffers a caller brings: of a float and of an integer type, unwritten or
\* written once
ExternalBuffers ==
    {NewBuffer(T, 1) : T \in {"Float", "UInt"}}
        \cup {setData_helper(NewBuffer(T, 1), InputData(MaxAttributeLen, 1), MaxAttributeLen, 1) :
                T \in {"Float", "UInt"}}

\* the buffers handed to setIndex: the above, and an unwritten one of every type
IndexBuffers == ExternalBuffers \cup {NewBuffer(T, 1) : T \in RenderDataTypes}

InstanceCounts == {1, INVALID_IND_32}

ProgInit ==
    /\ \E inst \in Instances : prog = NewShaderProgram(WrappedProgram(inst[1]), inst[2])
    /\ progRes = NoProgCall

\* no instance in play
ProgIdle ==
    /\ prog = Null
    /\ progRes = NoProgCall

\* ============================================================
\*  Framebuffer (GLFrameBuffer) and the render state it touches
\* ============================================================

\* the highest color attachment point colorAttachNum knows (GL_COLOR_ATTACHMENT7)
LastColorAttachment == 7
\* most depth targets handed to one framebuffer
MaxDepthAdds == 2

ColorSlots == 0..LastColorAttachment

\* extents, as <<sizeX, sizeY>>
FrameBufferSize == <<2, 2>>
OtherSize == <<4, 4>>

\* a render buffer or a texture as handed to the framebuffer: which class it is,
\* which backend made it, its extents
RenderBufferObject(backend, size) == [class |-> "RenderBuffer", backend |-> backend, size |-> size]
TextureBufferObject(backend, size) == [class |-> "TextureBuffer", backend |-> backend, size |-> size]

\* std::dynamic_pointer_cast<GLRenderBuffer / GLTextureBuffer> gives a non-null pointer
CastsToGL(obj) == obj.backend = "GL"

\* colorAttachNum(i) when its switch reaches the default case
colorAttachNumThrows(i) == i \notin ColorSlots

colorAttachNumMut(i) == 0

\* colorAttachNum(i): the attachment point GL_COLOR_ATTACHMENT<i>, as the slot number
colorAttachNum(i) == i

\* GLFrameBuffer::GLFrameBuffer(sizeX_, sizeY_, false), with the fields the base
\* class starts it with; colorSlots and depthSlot are the attachment points of the
\* native framebuffer object behind the handle, added the color attachments that
\* were recorded, in the order of their recording
NewFrameBuffer(size) ==
    [size |-> size, nColorBuffers |-> 0,
     renderBuffersColor |-> <<>>, textureBuffersColor |-> <<>>,
     renderBuffersDepth |-> <<>>, textureBuffersDepth |-> <<>>,
     viewportSet |-> FALSE, viewport |-> Null,
     colorSlots |-> [s \in ColorSlots |-> Null], depthSlot |-> Null,
     added |-> <<>>]

\* the render context: the device's framebuffer binding, viewport, depth test and
\* blending, and the engine's currRenderFramebuffer / current viewport
InitialContext ==
    [boundFramebuffer |-> "none", glViewport |-> Null,
     depthTest |-> FALSE, depthFunc |-> "LESS", depthMask |-> TRUE,
     blend |-> FALSE, blendFunc |-> "ONE, ZERO",
     currRenderFramebuffer |-> Null, currViewport |-> Null]

NoFbCall == [op |-> "none", status |-> "none", returned |-> FALSE, changed |-> FALSE,
             cleared |-> FALSE]

\* what a framebuffer records of its attachments
Recorded(f) == <<f.nColorBuffers, f.renderBuffersColor, f.textureBuffersColor,
                 f.renderBuffersDepth, f.textureBuffersDepth>>

FbCall(op, status, before, after) ==
    [NoFbCall EXCEPT !.op = op, !.status = status,
                     !.changed = Recorded(before) # Recorded(after)]

\* where a device error shows up in a call that attaches: nowhere, at the
\* checkGLError of bind(), or at the checkGLError after the attachment
AttachErrors == {"none", "onBind", "onAttach"}

\* which exit addColorBuffer takes
addColorBufferStatus(f, obj, deviceError) ==
    IF ~CastsToGL(obj) THEN "notGL"
    ELSE IF deviceError = "onBind" THEN "deviceErrorOnBind"
    ELSE IF colorAttachNumThrows(f.nColorBuffers) THEN "tooManyColorAttachments"
    ELSE IF deviceError = "onAttach" THEN "deviceErrorOnAttach"
    ELSE "ok"

\* GLFrameBuffer::addColorBuffer(std::shared_ptr<RenderBuffer>) and
\* GLFrameBuffer::addColorBuffer(std::shared_ptr<TextureBuffer>): the framebuffer after
addColorBuffer(f, obj, deviceError) ==
    LET status == addColorBufferStatus(f, obj, deviceError)
        slot == colorAttachNum(f.nColorBuffers)
        attached == [f EXCEPT !.colorSlots[slot] = PointerTo(obj)]
    IN  IF status = "deviceErrorOnAttach" THEN attached
        ELSE IF status = "ok"
        THEN [attached EXCEPT
                !.renderBuffersColor = IF obj.class = "RenderBuffer" THEN Append(@, obj) ELSE @,
                !.textureBuffersColor = IF obj.class = "TextureBuffer" THEN Append(@, obj) ELSE @,
                !.nColorBuffers = @ + 1,
                !.added = Append(@, obj)]
        ELSE f

\* which exit addDepthBuffer takes
addDepthBufferStatus(f, obj, deviceError) ==
    IF ~CastsToGL(obj) THEN "notGL"
    ELSE IF deviceError = "onBind" THEN "deviceErrorOnBind"
    ELSE IF deviceError = "onAttach" THEN "deviceErrorOnAttach"
    ELSE "ok"

\* GLFrameBuffer::addDepthBuffer(std::shared_ptr<RenderBuffer>) and
\* GLFrameBuffer::addDepthBuffer(std::shared_ptr<TextureBuffer>): the framebuffer after
addDepthBuffer(f, obj, deviceError) ==
    LET status == addDepthBufferStatus(f, obj, deviceError)
        attached == [f EXCEPT !.depthSlot = PointerTo(obj)]
    IN  IF status = "deviceErrorOnAttach" THEN attached
        ELSE IF status = "ok"
        THEN [attached EXCEPT
                !.renderBuffersDepth = IF obj.class = "RenderBuffer" THEN Append(@, obj) ELSE @,
                !.textureBuffersDepth = IF obj.class = "TextureBuffer" THEN Append(@, obj) ELSE @]
        ELSE f

\* GLFrameBuffer::bind(), its glBindFramebuffer
bind(c) == [c EXCEPT !.boundFramebuffer = "this"]

AddColorBuffer(obj, deviceError) ==
    LET status == addColorBufferStatus(fb, obj, deviceError)
        after == addColorBuffer(fb, obj, deviceError)
    IN  /\ fb' = after
        /\ ctx' = IF status = "notGL" THEN ctx ELSE bind(ctx)
        /\ fbRes' = FbCall("addColorBuffer", status, fb, after)

AddDepthBuffer(obj, deviceError) ==
    LET status == addDepthBufferStatus(fb, obj, deviceError)
        after == addDepthBuffer(fb, obj, deviceError)
    IN  /\ Len(fb.renderBuffersDepth) + Len(fb.textureBuffersDepth) < MaxDepthAdds
        /\ fb' = after
        /\ ctx' = IF status = "notGL" THEN ctx ELSE bind(ctx)
        /\ fbRes' = FbCall("addDepthBuffer", status, fb, after)

\* FrameBuffer::setViewport(startX, startY, sizeX, sizeY)
SetViewport(rect) ==
    /\ fb' = [fb EXCEPT !.viewportSet = TRUE, !.viewport = rect]
    /\ fbRes' = FbCall("setViewport", "ok", fb, fb)
    /\ UNCHANGED ctx

\* FrameBuffer::verifyBufferSizes() raises: an attachment whose extents are not
\* the framebuffer's
RANGE(seq) == {seq[i] : i \in DOMAIN seq}

verifyBufferSizesThrows(f) ==
    \E obj \in RANGE(f.renderBuffersColor) \cup RANGE(f.textureBuffersColor)
               \cup RANGE(f.renderBuffersDepth) \cup RANGE(f.textureBuffersDepth) :
        obj.size # f.size

\* what glCheckFramebufferStatus can answer: a framebuffer object with no image
\* attached is never complete; one with images may still be reported incomplete
CompletenessReports(f) ==
    IF f.depthSlot = Null /\ \A s \in ColorSlots : f.colorSlots[s] = Null
    THEN {FALSE} ELSE BOOLEAN

\* where a device error shows up in bindForRendering: nowhere, at the checkGLError
\* of bind(), or at the checkGLError after glViewport
BindErrors == {"none", "onBind", "onViewport"}

bindForRenderingStatusMut(f, complete, deviceError) ==
    IF verifyBufferSizesThrows(f) THEN "sizeMismatch"
    ELSE IF deviceError = "onBind" THEN "deviceErrorOnBind"
    ELSE IF ~complete THEN "incomplete"
    ELSE IF deviceError = "onViewport" THEN "deviceErrorOnViewport"
    ELSE "ok"

\* which exit bindForRendering takes
bindForRenderingStatus(f, complete, deviceError) ==
    IF verifyBufferSizesThrows(f) THEN "sizeMismatch"
    ELSE IF deviceError = "onBind" THEN "deviceErrorOnBind"
    ELSE IF ~complete THEN "incomplete"
    ELSE IF ~f.viewportSet THEN "viewportNotSet"
    ELSE IF deviceError = "onViewport" THEN "deviceErrorOnViewport"
    ELSE "ok"

bindForRenderingMut(f, c, complete, deviceError) ==
    IF verifyBufferSizesThrows(f) THEN c
    ELSE [bind(c) EXCEPT !.currRenderFramebuffer = PointerTo("this")]

\* GLFrameBuffer::bindForRendering(): the render context after
bindForRendering(f, c, complete, deviceError) ==
    LET status == bindForRenderingStatus(f, complete, deviceError)
        bound == bind(c)
        current == [bound EXCEPT !.currRenderFramebuffer = PointerTo("this")]
        viewed == [current EXCEPT !.glViewport = f.viewport, !.currViewport = f.viewport]
    IN  CASE status = "sizeMismatch" -> c
          [] status \in {"deviceErrorOnBind", "incomplete"} -> bound
          [] status = "viewportNotSet" -> current
          [] status = "deviceErrorOnViewport" -> viewed
          [] OTHER -> [viewed EXCEPT !.depthTest = TRUE, !.depthFunc = "LESS",
                                     !.blend = TRUE,
                                     !.blendFunc = "SRC_ALPHA, ONE_MINUS_SRC_ALPHA"]

BindForRendering(complete, deviceError) ==
    LET status == bindForRenderingStatus(fb, complete, deviceError)
    IN  /\ ctx' = bindForRendering(fb, ctx, complete, deviceError)
        /\ fbRes' = [FbCall("bindForRendering", status, fb, fb) EXCEPT
                        !.returned = (status = "ok")]
        /\ UNCHANGED fb

\* GLFrameBuffer::clear()
Clear(complete, deviceError) ==
    LET status == bindForRenderingStatus(fb, complete, deviceError)
    IN  /\ ctx' = bindForRendering(fb, ctx, complete, deviceError)
        /\ fbRes' = [FbCall("clear", status, fb, fb) EXCEPT !.cleared = (status = "ok")]
        /\ UNCHANGED fb

\* GLEngine::setDepthMode(newMode)
DepthModes == {"Less", "Greater", "Disable"}

SetDepthMode(newMode) ==
    /\ ctx' = CASE newMode = "Less" ->
                     [ctx EXCEPT !.depthTest = TRUE, !.depthFunc = "LESS", !.depthMask = TRUE]
                [] newMode = "Greater" ->
                     [ctx EXCEPT !.depthTest = TRUE, !.depthFunc = "GREATER", !.depthMask = TRUE]
                [] newMode = "Disable" ->
                     [ctx EXCEPT !.depthTest = FALSE, !.depthMask = FALSE]
    /\ fbRes' = FbCall("setDepthMode", "ok", fb, fb)
    /\ UNCHANGED fb

\* GLEngine::setBlendMode(newMode)
BlendModes == {"Add", "Disable"}

SetBlendMode(newMode) ==
    /\ ctx' = CASE newMode = "Add" -> [ctx EXCEPT !.blend = TRUE, !.blendFunc = "ONE, ONE"]
                [] newMode = "Disable" ->
                     [ctx EXCEPT !.blend = FALSE,
                                 !.blendFunc = "SRC_ALPHA, ONE_MINUS_SRC_ALPHA"]
    /\ fbRes' = FbCall("setBlendMode", "ok", fb, fb)
    /\ UNCHANGED fb

\* ---- the inputs of the framebuffer checks

\* what is handed to addColorBuffer
ColorTargets == {RenderBufferObject("GL", FrameBufferSize),
                 TextureBufferObject("GL", FrameBufferSize),
                 RenderBufferObject("other", FrameBufferSize)}

\* what is handed to addDepthBuffer
DepthTargets == {RenderBufferObject("GL", FrameBufferSize),
                 TextureBufferObject("GL", FrameBufferSize),
                 TextureBufferObject("other", FrameBufferSize)}

Viewports == {<<0, 0, 2, 2>>, <<1, 1, 1, 1>>}

\* the framebuffers that are bound and cleared: one with no attachment, one with a
\* color and a depth render buffer of its own extents, one whose depth texture
\* has other extents
FrameBuffers ==
    LET empty == NewFrameBuffer(FrameBufferSize)
        colored == addColorBuffer(empty, RenderBufferObject("GL", FrameBufferSize), "none")
    IN  {empty,
         addDepthBuffer(colored, RenderBufferObject("GL", FrameBufferSize), "none"),
         addDepthBuffer(colored, TextureBufferObject("GL", OtherSize), "none")}

\* a framebuffer just constructed, to be given its attachments
AttachInit ==
    /\ fb = NewFrameBuffer(FrameBufferSize)
    /\ ctx = bind(InitialContext)
    /\ fbRes = NoFbCall

\* a framebuffer with its attachments made, to be bound and cleared
RenderInit ==
    /\ fb \in FrameBuffers
    /\ ctx = bind(InitialContext)
    /\ fbRes = NoFbCall

\* no framebuffer in play
FbIdle ==
    /\ fb = NewFrameBuffer(FrameBufferSize)
    /\ ctx = InitialContext
    /\ fbRes = NoFbCall

\* ============================================================
\*  Drawing (GLShaderProgram::draw) and the device's draw state
\* ============================================================

\* the draw modes whose instances are made with usePrimitiveRestart
UsePrimitiveRestart(dm) == dm \in {"IndexedLineStrip", "IndexedLineStripAdjacency"}

\* the restart fields of a new instance
NewRestart == [restartIndex |-> INVALID_IND_32, primitiveRestartIndexSet |-> FALSE]

\* the device before any draw: GL_PRIMITIVE_RESTART disabled, restart index 0,
\* and the native calls the last draw issued (none yet)
InitialDevice == [primitiveRestart |-> FALSE, primitiveRestartIndex |-> 0, issued |-> <<>>]

\* GLShaderProgram::setPrimitiveRestartIndex(restartIndex_)
SetPrimitiveRestartIndex(restartIndex_) ==
    LET status == IF ~UsePrimitiveRestart(prog.drawMode) THEN "noRestart" ELSE "ok"
    IN  /\ restart' = IF status = "ok"
                      THEN [restartIndex |-> restartIndex_, primitiveRestartIndexSet |-> TRUE]
                      ELSE restart
        /\ prog' = prog
        /\ gl' = gl
        /\ progRes' = ProgCall("setPrimitiveRestartIndex", status, <<>>, "", prog)

\* what the device can report during a draw: nothing, an error found by the
\* check that follows the binding of a texture, an error found by the check
\* that ends the draw
DrawErrors == {"none", "onBind", "atEnd"}

\* what the call of bind() through a null texture pointer can do: stop the
\* process there, or go on with whatever handle it read
NullDerefs == {"fault", "proceeds"}

\* GLShaderProgram::activateTextures from entry i on: how it ended and the native
\* calls it issued
RECURSIVE activateTextures(_, _, _, _)
activateTextures(textures, i, deviceError, nullDeref) ==
    IF i > Len(textures) THEN [status |-> "ok", issued |-> <<>>]
    ELSE IF textures[i].location = NoLocation
    THEN activateTextures(textures, i + 1, deviceError, nullDeref)
    ELSE IF textures[i].textureBuffer = "null" /\ nullDeref = "fault"
    THEN [status |-> "fault", issued |-> <<"glActiveTexture">>]
    ELSE IF deviceError = "onBind"
    THEN [status |-> "deviceError", issued |-> <<"glActiveTexture", "glBindTexture">>]
    ELSE LET rest == activateTextures(textures, i + 1, deviceError, nullDeref)
         IN  [status |-> rest.status,
              issued |-> <<"glActiveTexture", "glBindTexture", "glUniform1i">> \o rest.issued]

\* the native draw call of the switch on the draw mode
NativeDrawCall(dm) ==
    IF UseIndex(dm) THEN "glDrawElements"
    ELSE IF Instanced(dm) THEN "glDrawArraysInstanced"
    ELSE "glDrawArrays"

NativeDrawCalls == {"glDrawElements", "glDrawArraysInstanced", "glDrawArrays"}

\* draw() without its first statement: the device calls are issued whatever
\* validateData would say
drawMut(p, r, device, deviceError, nullDeref) ==
    LET upr == UsePrimitiveRestart(p.drawMode)
    IN  [status |-> "ok", drawDataLength |-> p.drawDataLength,
         gl |-> [primitiveRestart |-> IF upr THEN FALSE ELSE device.primitiveRestart,
                 primitiveRestartIndex |-> IF upr THEN r.restartIndex
                                           ELSE device.primitiveRestartIndex,
                 issued |-> <<"glUseProgram", "glBindVertexArray", NativeDrawCall(p.drawMode)>>]]

\* GLShaderProgram::draw() on instance p with restart fields r and the device in
\* state device: how it ended, the draw length it leaves, the device after it
draw(p, r, device, deviceError, nullDeref) ==
    LET v == validateData(p)
        upr == UsePrimitiveRestart(p.drawMode)
        enabled == IF upr
                   THEN [device EXCEPT !.primitiveRestart = TRUE,
                                       !.primitiveRestartIndex = r.restartIndex]
                   ELSE device
        textures == activateTextures(p.textures, 1, deviceError, nullDeref)
        head == <<"glUseProgram", "glBindVertexArray">>
                    \o (IF upr THEN <<"glEnable", "glPrimitiveRestartIndex">> ELSE <<>>)
                    \o textures.issued
    IN  IF v.status # "ok"
        THEN [status |-> v.status, drawDataLength |-> v.drawDataLength,
              gl |-> [device EXCEPT !.issued = <<>>]]
        ELSE IF textures.status # "ok"
        THEN [status |-> textures.status, drawDataLength |-> v.drawDataLength,
              gl |-> [enabled EXCEPT !.issued = head]]
        ELSE [status |-> IF deviceError = "atEnd" THEN "deviceError" ELSE "ok",
              drawDataLength |-> v.drawDataLength,
              gl |-> [enabled EXCEPT
                        !.primitiveRestart = IF upr THEN FALSE ELSE @,
                        !.issued = head \o <<NativeDrawCall(p.drawMode)>>
                                        \o (IF upr THEN <<"glDisable">> ELSE <<>>)]]

\* GLShaderProgram::draw()
Draw(deviceError, nullDeref) ==
    LET d == draw(prog, restart, gl, deviceError, nullDeref)
        after == [prog EXCEPT !.drawDataLength = d.drawDataLength]
    IN  /\ prog' = after
        /\ restart' = restart
        /\ gl' = d.gl
        /\ progRes' = ProgCall("draw", d.status, <<>>, "", after)

\* the instances drawn: a plain and a restartable draw mode, the colour, the
\* positions and the material texture resolved
DrawInstances ==
    { <<"Triangles", {"u_modelView", "a_value", "t_colormap"}>>,
      <<"IndexedLineStrip", {"u_modelView", "a_value", "t_colormap"}>> }

\* the index buffers of the drawn instances: unwritten and written
DrawIndexBuffers == {b \in ExternalBuffers : b.dataType = "UInt"}

RestartIndices == {2}

DrawInit ==
    /\ \E inst \in DrawInstances : prog = NewShaderProgram(WrappedProgram(inst[1]), inst[2])
    /\ progRes = NoProgCall
    /\ restart = NewRestart
    /\ gl = InitialDevice

\* nothing is drawn
DrawIdle ==
    /\ restart = NewRestart
    /\ gl = InitialDevice

\* nothing is counted
BuildsIdle == builds = <<>>

\* ============================================================
\*  Texture buffer (GLTextureBuffer), of one or two dimensions
\* ============================================================

\* the formats of the textures modelled, one of every channel count
TextureFormats == {"R32F", "RG16F", "RGB32F", "RGBA32F"}

\* dimension(format): the number of channels of a texel
dimension(format) ==
    CASE format = "R32F" -> 1
      [] format = "RG16F" -> 2
      [] format = "RGB32F" -> 3
      [] format = "RGBA32F" -> 4

\* the bytes of one channel as type(format) tells the device to read it from
\* client memory: GL_HALF_FLOAT for RG16F, GL_FLOAT for the others
TypeBytes(format) == IF format = "RG16F" THEN 2 ELSE 4

\* TextureBuffer::getTotalSize(): the number of texels by the extents
getTotalSize(t) == IF t.dim = 1 THEN t.sizeX ELSE t.sizeX * t.sizeY

\* a device image of n channel values whose contents are unspecified (0)
Blank(n) == [i \in 1..n |-> 0]

\* GLTextureBuffer(format, size1D, data) / GLTextureBuffer(format, sizeX, sizeY, data)
\* with no data given
NewTexture(dim, format, sizeX, sizeY) ==
    LET t == [dim |-> dim, format |-> format, sizeX |-> sizeX, sizeY |-> sizeY]
    IN  [dim |-> dim, format |-> format, sizeX |-> sizeX, sizeY |-> sizeY,
         image |-> Blank(getTotalSize(t) * dimension(format))]

NoTexCall == [op |-> "none", status |-> "none", k |-> 0, n |-> 0, returned |-> 0,
              changed |-> FALSE]

TexCall(op, status, k, n, returned, after) ==
    [op |-> op, status |-> status, k |-> k, n |-> n, returned |-> returned,
     changed |-> after.image # tex.image]

\* what the device can report during a texture call: nothing, an error found by
\* the check in bind(), an error found by the check that ends the call
TexErrors == {"none", "onBind", "atEnd"}

\* what an access of client memory past its end can do: stop the process, or go
\* on with whatever was read or overwritten
Overruns == {"fault", "proceeds"}

\* TextureBuffer::resize (the extents are assigned) and GLTextureBuffer::resize
\* of `arity` extents
Resize(arity, newX, newY, deviceError) ==
    LET sized == IF arity = 1 THEN [tex EXCEPT !.sizeX = newX]
                 ELSE [tex EXCEPT !.sizeX = newX, !.sizeY = newY]
        status == IF deviceError = "onBind" THEN "deviceError"
                  ELSE IF tex.dim # arity THEN "wrongDimension"
                  ELSE IF deviceError = "atEnd" THEN "deviceError"
                  ELSE "ok"
        after == IF deviceError # "onBind" /\ tex.dim = arity
                 THEN [sized EXCEPT !.image = Blank(getTotalSize(sized) * dimension(tex.format))]
                 ELSE sized
    IN  /\ tex' = after
        /\ texRes' = TexCall("resize", status, arity, 0, 0, after)

\* the overloads of setData: the channels of one element of the sequence, 0 for
\* an overload that is not implemented
TexForms == {"float", "double", "vec2", "vec3", "vec4", "uint32"}

TexFormChannels(form) ==
    CASE form \in {"float", "double"} -> 1
      [] form = "vec3" -> 3
      [] form = "vec4" -> 4
      [] OTHER -> 0

\* the channels of one element of a sequence of the overload's type
ElementChannels(form) ==
    CASE form \in {"float", "double", "uint32"} -> 1
      [] form = "vec2" -> 2
      [] form = "vec3" -> 3
      [] form = "vec4" -> 4

\* what glTexSubImage reads as `need` channel values of the format from client
\* memory holding the floats `data`: the floats themselves when the device reads
\* floats, whatever the bytes spell otherwise (-1)
DeviceRead(format, data, need) ==
    [i \in 1..need |-> IF TypeBytes(format) = 4 /\ i <= Len(data) THEN data[i] ELSE -1]

\* GLTextureBuffer::setData(data) for a sequence of n elements of overload `form`
\* on texture t: how it ended and the device image after it
setDataTexture(t, form, n, deviceError, overrun) ==
    LET k == TexFormChannels(form)
        data == InputData(n, k)
        need == getTotalSize(t) * dimension(t.format)
        past == need * TypeBytes(t.format) > Len(data) * 4
    IN  IF k = 0 THEN [status |-> "notImplemented", image |-> t.image]
        ELSE IF deviceError = "onBind" THEN [status |-> "deviceError", image |-> t.image]
        ELSE IF n # getTotalSize(t) THEN [status |-> "wrongSize", image |-> t.image]
        ELSE IF past /\ overrun = "fault" THEN [status |-> "fault", image |-> t.image]
        ELSE [status |-> IF deviceError = "atEnd" THEN "deviceError" ELSE "ok",
              image |-> DeviceRead(t.format, data, need)]

\* GLTextureBuffer::setData(data)
SetDataTexture(form, n, deviceError, overrun) ==
    LET r == setDataTexture(tex, form, n, deviceError, overrun)
        after == [tex EXCEPT !.image = r.image]
    IN  /\ tex' = after
        /\ texRes' = TexCall("setData", r.status, ElementChannels(form), n, 0, after)

\* GLTextureBuffer::getDataScalar (k = 1), getDataVector2 (k = 2), getDataVector3
\* (k = 3): how it ended and how many elements it returned
getDataTexture(t, k, deviceError, overrun) ==
    IF dimension(t.format) # k THEN [status |-> "wrongArity", returned |-> 0]
    ELSE IF k = 3 THEN [status |-> "notImplemented", returned |-> 0]
    ELSE IF deviceError = "onBind" THEN [status |-> "deviceError", returned |-> 0]
    ELSE IF Len(t.image) > getTotalSize(t) * k /\ overrun = "fault"
    THEN [status |-> "fault", returned |-> 0]
    ELSE IF deviceError = "atEnd" THEN [status |-> "deviceError", returned |-> 0]
    ELSE [status |-> "ok", returned |-> getTotalSize(t)]

GetDataTexture(k, deviceError, overrun) ==
    LET r == getDataTexture(tex, k, deviceError, overrun)
    IN  /\ tex' = tex
        /\ texRes' = TexCall("getData", r.status, k, 0, r.returned, tex)

\* the extents given to a texture
Extents == 1..2

\* the longest sequence handed to a texture's setData
MaxTexels == 4

TexInit ==
    /\ \E dim \in 1..2, format \in TextureFormats, x \in Extents :
            tex = NewTexture(dim, format, x, 1)
    /\ texRes = NoTexCall

\* no texture in play
TexIdle ==
    /\ tex = NewTexture(1, "R32F", 1, 1)
    /\ texRes = NoTexCall

\* ============================================================
\*  Instances of one compiled program (GLEngine::requestShader)
\* ============================================================

\* no instance requested yet
NoShare == [wraps |-> NullProgram, peer |-> Null, peerWraps |-> NullProgram]

ShareIdle == share = NoShare

\* the names the device leaves without a location in the programs requested
SharedOptimizedOut == {"u_modelView", "a_value", "t_colormap"}

\* requestShader handing out the instance it made before when the compiled
\* program is the same
RequestInstanceMut(programName, customRules, defaults) ==
    /\ RequestShader(programName, customRules, defaults)
    /\ IF engRes'.status = "ok"
       THEN /\ prog' = IF share.wraps = engRes'.prog THEN prog
                       ELSE NewShaderProgram(compiled'[engRes'.prog], SharedOptimizedOut)
            /\ progRes' = NoProgCall
            /\ share' = [wraps |-> engRes'.prog, peer |-> prog, peerWraps |-> share.wraps]
       ELSE UNCHANGED <<prog, progRes, share>>

\* GLEngine::requestShader(programName, customRules, defaults) with the instance
\* it returns: a GLShaderProgram constructed on the compiled program, which is
\* the instance the calls that follow address; the instance requested before is
\* kept by its owner
RequestInstance(programName, customRules, defaults) ==
    /\ RequestShader(programName, customRules, defaults)
    /\ IF engRes'.status = "ok"
       THEN /\ prog' = NewShaderProgram(compiled'[engRes'.prog], SharedOptimizedOut)
            /\ progRes' = NoProgCall
            /\ share' = [wraps |-> engRes'.prog, peer |-> prog, peerWraps |-> share.wraps]
       ELSE UNCHANGED <<prog, progRes, share>>

\* the requests of the instances: two cache keys of one registered program
ShareRequests == { <<"P", <<>>, "None">>, <<"P", <<"A">>, "None">> }

\* ============================================================
\*  Specifications
\* ============================================================

\* a buffer of any type and multiplicity, just constructed
BufInit ==
    /\ \E t \in RenderDataTypes, c \in 1..MaxArrayCount : buf = NewBuffer(t, c)
    /\ glErr = FALSE
    /\ bufRes = NoCall

\* no buffer in play
BufIdle ==
    /\ buf = NewBuffer("Float", 1)
    /\ glErr = FALSE
    /\ bufRes = NoCall

\* no engine in play
EngIdle ==
    /\ registeredShaderPrograms = <<>>
    /\ registeredShaderRules = <<>>
    /\ compiledProgamCache = <<>>
    /\ compiled = <<>>
    /\ engRes = NoRequest

InitBuffer == BufInit /\ EngIdle /\ ProgIdle /\ FbIdle /\ CtorIdle /\ DrawIdle /\ BuildsIdle /\ TexIdle /\ ShareIdle

NextBuffer ==
    \/ \E form \in SetForms, n \in 0..MaxLen, errChecks \in BOOLEAN :
            SetData(form, n, errChecks) /\ UNCHANGED <<engVars, progVars, fbVars, construction, drawVars, builds, texVars, share>>
    \/ \E T \in ReadTypes, ind \in 0..MaxIndex : GetData(T, ind) /\ UNCHANGED <<engVars, progVars, fbVars, construction, drawVars, builds, texVars, share>>
    \/ \E T \in ReadTypes, start \in 0..MaxIndex, count \in 0..MaxIndex :
            GetDataRange(T, start, count) /\ UNCHANGED <<engVars, progVars, fbVars, construction, drawVars, builds, texVars, share>>

\* the typed buffer alone
SpecBuffer == InitBuffer /\ [][NextBuffer]_vars

InitCache == BufIdle /\ EngInit /\ ProgIdle /\ FbIdle /\ CtorIdle /\ DrawIdle /\ BuildsIdle /\ TexIdle /\ ShareIdle

NextCache ==
    \/ \E req \in Requests : RequestShader(req[1], req[2], req[3]) /\ UNCHANGED <<bufVars, progVars, fbVars, construction, drawVars, builds, texVars, share>>
    \/ \E name \in ProgNames :
            RegisterShaderProgram(name, StagesNoAttributes, "Triangles") /\ UNCHANGED <<bufVars, progVars, fbVars, construction, drawVars, builds, texVars, share>>
    \/ \E name \in RuleNames :
            RegisterShaderRule(name, ShaderReplacementRule(name)) /\ UNCHANGED <<bufVars, progVars, fbVars, construction, drawVars, builds, texVars, share>>

\* the engine's cache under requests, the registries as populated at start-up
SpecCache == InitCache /\ [][NextCache]_vars

\* GLShaderProgram::attributeIsSet(name): the first resolved attribute of the name
\* answers with its buffer's isSet(); the buffer pointer is dereferenced without a
\* test, so on an attribute that has no buffer yet the call faults or answers
\* with whatever is read
attributeIsSet(p, name, nullDeref, garbage) ==
    LET i == FirstResolved(p.attributes, name)
    IN  IF i = 0 THEN "false"
        ELSE IF p.attributes[i].buff = Null
        THEN IF nullDeref = "fault" THEN "fault"
             ELSE IF garbage THEN "true" ELSE "false"
        ELSE IF Deref(p.attributes[i].buff).setFlag THEN "true" ELSE "false"

AttributeIsSet(name, nullDeref, garbage) ==
    /\ prog' = prog
    /\ progRes' = ProgCall("attributeIsSet", attributeIsSet(prog, name, nullDeref, garbage),
                            prog.attributes, name, prog)

InitProgram == BufIdle /\ EngIdle /\ ProgInit /\ FbIdle /\ CtorIdle /\ DrawIdle /\ BuildsIdle /\ TexIdle /\ ShareIdle

NextProgram ==
    \/ \E name \in UniformNames, T \in UniformTypes :
            SetUniform(name, T) /\ UNCHANGED <<bufVars, engVars, fbVars, construction, drawVars, builds, texVars, share>>
    \/ \E name \in AttributeNames, form \in AttributeForms, n \in AttributeLens :
            SetAttributeData(name, form, n) /\ UNCHANGED <<bufVars, engVars, fbVars, construction, drawVars, builds, texVars, share>>
    \/ \E name \in AttributeNames, externalBuffer \in ExternalBuffers :
            SetAttributeExternal(name, externalBuffer) /\ UNCHANGED <<bufVars, engVars, fbVars, construction, drawVars, builds, texVars, share>>
    \/ \E name \in TextureNames : SetTexture1D(name) /\ UNCHANGED <<bufVars, engVars, fbVars, construction, drawVars, builds, texVars, share>>
    \/ \E name \in TextureNames : SetTexture2D(name) /\ UNCHANGED <<bufVars, engVars, fbVars, construction, drawVars, builds, texVars, share>>
    \/ \E name \in TextureNames, dim \in {1, 2}, foreign \in BOOLEAN :
            SetTextureFromBuffer(name, dim, foreign) /\ UNCHANGED <<bufVars, engVars, fbVars, construction, drawVars, builds, texVars, share>>
    \/ \E name \in TextureNames, allowUpdate \in BOOLEAN :
            SetTextureFromColormap(name, allowUpdate) /\ UNCHANGED <<bufVars, engVars, fbVars, construction, drawVars, builds, texVars, share>>
    \/ \E externalBuffer \in ExternalBuffers :
            SetIndex(externalBuffer) /\ UNCHANGED <<bufVars, engVars, fbVars, construction, drawVars, builds, texVars, share>>
    \/ \E instanceCount_ \in InstanceCounts :
            SetInstanceCount(instanceCount_) /\ UNCHANGED <<bufVars, engVars, fbVars, construction, drawVars, builds, texVars, share>>
    \/ ValidateData /\ UNCHANGED <<bufVars, engVars, fbVars, construction, drawVars, builds, texVars, share>>
    \/ \E name \in AttributeNames, nullDeref \in NullDerefs, garbage \in BOOLEAN :
            AttributeIsSet(name, nullDeref, garbage) /\ UNCHANGED <<bufVars, engVars, fbVars, construction, drawVars, builds, texVars, share>>

\* one shader program instance under its setters, its queries and validateData
SpecProgram == InitProgram /\ [][NextProgram]_vars

\* the instances given index buffers: the above, and one of a non-indexed mode
\* whose attributes the device all left without a location
IndexInstances ==
    Instances \cup { <<"Triangles", {"a_position", "a_value", "t_mat", "t_colormap"}>> }

IndexInit ==
    /\ \E inst \in IndexInstances : prog = NewShaderProgram(WrappedProgram(inst[1]), inst[2])
    /\ progRes = NoProgCall

InitIndex == BufIdle /\ EngIdle /\ IndexInit /\ FbIdle /\ CtorIdle /\ DrawIdle /\ BuildsIdle /\ TexIdle /\ ShareIdle

NextIndex ==
    \/ \E externalBuffer \in IndexBuffers :
            SetIndex(externalBuffer) /\ UNCHANGED <<bufVars, engVars, fbVars, construction, drawVars, builds, texVars, share>>
    \/ \E instanceCount_ \in InstanceCounts :
            SetInstanceCount(instanceCount_) /\ UNCHANGED <<bufVars, engVars, fbVars, construction, drawVars, builds, texVars, share>>
    \/ \E name \in UniformNames, T \in UniformTypes :
            SetUniform(name, T) /\ UNCHANGED <<bufVars, engVars, fbVars, construction, drawVars, builds, texVars, share>>
    \/ ValidateData /\ UNCHANGED <<bufVars, engVars, fbVars, construction, drawVars, builds, texVars, share>>

\* one shader program instance given index buffers of every type
SpecIndex == InitIndex /\ [][NextIndex]_vars

InitAttach == BufIdle /\ EngIdle /\ ProgIdle /\ AttachInit /\ CtorIdle /\ DrawIdle /\ BuildsIdle /\ TexIdle /\ ShareIdle

NextAttach ==
    \/ \E obj \in ColorTargets, deviceError \in AttachErrors :
            AddColorBuffer(obj, deviceError) /\ UNCHANGED <<bufVars, engVars, progVars, construction, drawVars, builds, texVars, share>>
    \/ \E obj \in DepthTargets, deviceError \in AttachErrors :
            AddDepthBuffer(obj, deviceError) /\ UNCHANGED <<bufVars, engVars, progVars, construction, drawVars, builds, texVars, share>>

\* one framebuffer being given its attachments
SpecAttach == InitAttach /\ [][NextAttach]_vars

InitRender == BufIdle /\ EngIdle /\ ProgIdle /\ RenderInit /\ CtorIdle /\ DrawIdle /\ BuildsIdle /\ TexIdle /\ ShareIdle

NextRender ==
    \/ \E rect \in Viewports : SetViewport(rect) /\ UNCHANGED <<bufVars, engVars, progVars, construction, drawVars, builds, texVars, share>>
    \/ \E complete \in CompletenessReports(fb), deviceError \in BindErrors :
            BindForRendering(complete, deviceError) /\ UNCHANGED <<bufVars, engVars, progVars, construction, drawVars, builds, texVars, share>>
    \/ \E complete \in CompletenessReports(fb), deviceError \in BindErrors :
            Clear(complete, deviceError) /\ UNCHANGED <<bufVars, engVars, progVars, construction, drawVars, builds, texVars, share>>
    \/ \E newMode \in DepthModes : SetDepthMode(newMode) /\ UNCHANGED <<bufVars, engVars, progVars, construction, drawVars, builds, texVars, share>>
    \/ \E newMode \in BlendModes : SetBlendMode(newMode) /\ UNCHANGED <<bufVars, engVars, progVars, construction, drawVars, builds, texVars, share>>

\* one framebuffer, its attachments made, being bound and cleared
SpecRender == InitRender /\ [][NextRender]_vars

InitCompile == BufIdle /\ EngIdle /\ ProgIdle /\ FbIdle /\ CtorInit /\ DrawIdle /\ BuildsIdle /\ TexIdle /\ ShareIdle

NextCompile ==
    \E stages \in StageLists, built \in BuildOutcomes :
        Construct(stages, "Triangles", built) /\ UNCHANGED <<bufVars, engVars, progVars, fbVars, drawVars, builds, texVars, share>>

\* the GLCompiledProgram constructor over stage lists
SpecCompile == InitCompile /\ [][NextCompile]_vars

\* ---- the constructor under the logging options

\* options::verbosity as the thresholds of compileGLProgram see it: silent, above
\* 0, above 2, above 100
Verbosities == {0, 1, 3, 101}

\* GL_INFO_LOG_LENGTH of the longest stage log: absent, the terminator alone, text
LogLens == {0, 1, 2}

\* printShaderInfoLog(shaderHandle): whether it throws "shader compile failed"
printShaderInfoLogThrows(verbosity, logLen) == verbosity > 0 /\ logLen > 1

\* GLCompiledProgram::compileGLProgram(stages): how it ends, the device having
\* done with the sources what device says and left a stage log of length logLen
compileGLProgram(device, verbosity, logLen) ==
    IF device = "compileFailed" THEN "compileFailed"
    ELSE IF verbosity > 2 /\ printShaderInfoLogThrows(verbosity, logLen) THEN "compileFailed"
    ELSE IF device = "linkFailed" THEN "linkFailed"
    ELSE "ok"

\* new GLCompiledProgram(stages, dm) with the options and the device's answers
\* recorded beside the result
ConstructLogged(stages, dm, device, verbosity, logLen) ==
    /\ construction = NoConstruction
    /\ construction' =
          [stages |-> stages,
           result |-> NewCompiledProgram(stages, dm, compileGLProgram(device, verbosity, logLen)),
           device |-> device, verbosity |-> verbosity, logLen |-> logLen]

InitLog == BufIdle /\ EngIdle /\ ProgIdle /\ FbIdle /\ CtorInit /\ DrawIdle /\ BuildsIdle /\ TexIdle /\ ShareIdle

NextLog ==
    \E s \in StageSpecifications, device \in BuildOutcomes,
       verbosity \in Verbosities, logLen \in LogLens :
        ConstructLogged(<<s>>, "Triangles", device, verbosity, logLen)
            /\ UNCHANGED <<bufVars, engVars, progVars, fbVars, drawVars, builds, texVars, share>>

\* the GLCompiledProgram constructor over verbosity levels and stage logs
SpecLog == InitLog /\ [][NextLog]_vars

InitDraw == BufIdle /\ EngIdle /\ DrawInit /\ FbIdle /\ CtorIdle /\ BuildsIdle /\ TexIdle /\ ShareIdle

NextDraw ==
    \/ SetUniform("u_color", "Vector3Float")
            /\ UNCHANGED <<bufVars, engVars, fbVars, construction, drawVars, builds, texVars, share>>
    \/ \E n \in AttributeLens :
            SetAttributeData("a_position", "vec3", n)
                /\ UNCHANGED <<bufVars, engVars, fbVars, construction, drawVars, builds, texVars, share>>
    \/ SetTexture2D("t_mat")
            /\ UNCHANGED <<bufVars, engVars, fbVars, construction, drawVars, builds, texVars, share>>
    \/ \E foreign \in BOOLEAN :
            SetTextureFromBuffer("t_mat", 2, foreign)
                /\ UNCHANGED <<bufVars, engVars, fbVars, construction, drawVars, builds, texVars, share>>
    \/ \E externalBuffer \in DrawIndexBuffers :
            SetIndex(externalBuffer)
                /\ UNCHANGED <<bufVars, engVars, fbVars, construction, drawVars, builds, texVars, share>>
    \/ \E restartIndex_ \in RestartIndices :
            SetPrimitiveRestartIndex(restartIndex_)
                /\ UNCHANGED <<bufVars, engVars, fbVars, construction, builds, texVars, share>>
    \/ \E deviceError \in DrawErrors, nullDeref \in NullDerefs :
            Draw(deviceError, nullDeref)
                /\ UNCHANGED <<bufVars, engVars, fbVars, construction, builds, texVars, share>>

\* one shader program instance being configured and drawn
SpecDraw == InitDraw /\ [][NextDraw]_vars

\* ---- builds counted per cache key

\* the most builds counted for one key
MaxBuilds == 2

\* how a request ends when the constructor of the compiled program threw
BuildStatuses == {"nameClash", "noAttributes", "compileFailed", "linkFailed"}

NoBuilds == [performed |-> 0, succeeded |-> 0]

BuildsOf(key) == IF key \in DOMAIN builds THEN builds[key] ELSE NoBuilds

\* GLEngine::requestShader with the build it makes counted under its cache key: a
\* build is performed when the rules were substituted and the constructor of the
\* compiled program ran, and succeeded when the constructor returned
CountedRequest(programName, customRules, defaults) ==
    /\ RequestShader(programName, customRules, defaults)
    /\ LET progKey == programKeyFromRules(programName, customRules, defaults)
           succeeded == Len(compiled') > Len(compiled)
           performed == succeeded \/ engRes'.status \in BuildStatuses
           was == BuildsOf(progKey)
           now == [performed |-> was.performed + 1,
                   succeeded |-> was.succeeded + (IF succeeded THEN 1 ELSE 0)]
       IN  /\ performed => was.performed < MaxBuilds
           /\ builds' = IF performed
                        THEN [k \in DOMAIN builds \cup {progKey} |->
                                IF k = progKey THEN now ELSE builds[k]]
                        ELSE builds

\* an instance ready to be drawn: its colour set and one position written, the
\* other names optimized out
ReadyInstance ==
    LET p == NewShaderProgram(WrappedProgram("Triangles"),
                              {"u_modelView", "a_value", "t_mat", "t_colormap"})
        u == FirstNamed(p.uniforms, "u_color")
        a == FirstNamed(p.attributes, "a_position")
    IN  [p EXCEPT !.uniforms[u].isSet = TRUE,
                  !.attributes[a].buff =
                        PointerTo(setData_helper(NewBuffer("Vector3Float", 1),
                                                 InputData(1, 3), 1, 3))]

\* the requests counted: two programs that build, a rule and a program that
\* are not registered
BuildRequests ==
    { <<"P", <<>>, "None">>, <<"P", <<"A">>, "None">>, <<"P", <<"A", "X">>, "None">>,
      <<"Q", <<>>, "None">> }

InitBuilds ==
    /\ BufIdle /\ EngInit /\ FbIdle /\ CtorIdle /\ DrawIdle /\ BuildsIdle /\ TexIdle
    /\ ShareIdle
    /\ prog \in {ReadyInstance, NewShaderProgram(WrappedProgram("Triangles"), {})}
    /\ progRes = NoProgCall

NextBuilds ==
    \/ \E req \in BuildRequests :
            CountedRequest(req[1], req[2], req[3])
                /\ UNCHANGED <<bufVars, progVars, fbVars, construction, drawVars, texVars, share>>
    \/ \E deviceError \in {"none", "atEnd"} :
            Draw(deviceError, "fault")
                /\ UNCHANGED <<bufVars, engVars, fbVars, construction, builds, texVars, share>>

\* the engine serving requests while an instance is drawn
SpecBuilds == InitBuilds /\ [][NextBuilds]_vars

InitTexture ==
    BufIdle /\ EngIdle /\ ProgIdle /\ FbIdle /\ CtorIdle /\ DrawIdle /\ BuildsIdle /\ TexInit
        /\ ShareIdle

NextTexture ==
    \/ \E arity \in 1..2, newX \in Extents, newY \in Extents, deviceError \in TexErrors :
            Resize(arity, newX, newY, deviceError)
                /\ UNCHANGED <<bufVars, engVars, progVars, fbVars, construction, drawVars, builds, share>>
    \/ \E form \in TexForms, n \in 1..MaxTexels, deviceError \in TexErrors, overrun \in Overruns :
            SetDataTexture(form, n, deviceError, overrun)
                /\ UNCHANGED <<bufVars, engVars, progVars, fbVars, construction, drawVars, builds, share>>
    \/ \E k \in 1..3, deviceError \in TexErrors, overrun \in Overruns :
            GetDataTexture(k, deviceError, overrun)
                /\ UNCHANGED <<bufVars, engVars, progVars, fbVars, construction, drawVars, builds, share>>

\* one texture being resized, written and read back
SpecTexture == InitTexture /\ [][NextTexture]_vars

InitShare ==
    BufIdle /\ EngInit /\ ProgIdle /\ FbIdle /\ CtorIdle /\ DrawIdle /\ BuildsIdle /\ TexIdle
        /\ ShareIdle

NextShare ==
    \/ \E req \in ShareRequests :
            RequestInstance(req[1], req[2], req[3])
                /\ UNCHANGED <<bufVars, fbVars, construction, drawVars, builds, texVars>>
    \/ prog # Null /\ SetUniform("u_color", "Vector3Float")
            /\ UNCHANGED <<bufVars, engVars, fbVars, construction, drawVars, builds, texVars, share>>
    \/ prog # Null /\ SetAttributeData("a_position", "vec3", 1)
            /\ UNCHANGED <<bufVars, engVars, fbVars, construction, drawVars, builds, texVars, share>>
    \/ prog # Null /\ SetTexture2D("t_mat")
            /\ UNCHANGED <<bufVars, engVars, fbVars, construction, drawVars, builds, texVars, share>>
    \/ prog # Null /\ ValidateData
            /\ UNCHANGED <<bufVars, engVars, fbVars, construction, drawVars, builds, texVars, share>>

\* instances requested from the engine and configured one after the other
SpecShare == InitShare /\ [][NextShare]_vars

\* ============================================================
\*  Properties of the typed buffer (checked under SpecBuffer)
\* ============================================================

\* the setData overloads that take a plain (non-array) sequence
PlainForms == SetForms \ {"arr2", "arr3", "arr4"}

\* the read of the same C++ element type as a plain setData overload
SameTypeRead(form) == IF form = "int32" THEN "int" ELSE form

\* what a caller of a plain overload expects to read back
Expected(form, given) ==
    IF form = "double" THEN [p \in 1..Len(given) |-> WidenToDouble(NarrowToFloat(given[p]))]
    ELSE given

\* C6: after a setData of a plain element type that returned, with sequence s, the
\* range read of the same type over (0, length of s) succeeds and returns exactly s
\* (for double input: s narrowed to float), whatever the buffer held before.
C6_RoundTrip ==
    buf.lastForm \in PlainForms =>
        LET r == getDataRange(buf, SameTypeRead(buf.lastForm), 0, Len(buf.lastGiven))
        IN  /\ r.status = "ok"
            /\ r.vals = Expected(buf.lastForm, buf.lastGiven)

\* C6 witness: a full-range read returned the sequence just written while the
\* storage behind it still holds the tail of longer, older data.
C6_Witness ==
    /\ bufRes.op = "getDataRange" /\ bufRes.status = "ok"
    /\ buf.lastForm \in PlainForms /\ bufRes.kind = SameTypeRead(buf.lastForm)
    /\ bufRes.a = 0 /\ bufRes.b = Len(buf.lastGiven) /\ bufRes.b > 0
    /\ bufRes.vals = buf.lastGiven
    /\ Len(buf.mem) > Len(buf.lastGiven)
    /\ buf.mem[Len(buf.lastGiven) + 1] # Garbage

\* C7: no call ever lowers the capacity, and after every setData that returned
\* the logical count is the length of the sequence it was given.
C7_GrowthMonotonic ==
    [][/\ buf'.bufferSize >= buf.bufferSize
       /\ (bufRes'.op = "setData" /\ bufRes'.status = "ok" => buf'.dataSize = bufRes'.a)]_vars

\* C7 witness: a setData of a shorter sequence returned on a buffer that keeps
\* its larger, doubled capacity.
C7_Witness ==
    /\ bufRes.op = "setData" /\ bufRes.status = "ok"
    /\ buf.dataSize = bufRes.a /\ buf.dataSize = 1 /\ buf.bufferSize = 4

\* C8: once a buffer has been written, its logical count is at most its capacity.
C8_CountWithinCapacity == buf.setFlag => buf.dataSize <= buf.bufferSize

\* C8 witness: a written buffer whose count equals a capacity reached by growth.
C8_Witness ==
    /\ bufRes.op = "setData" /\ buf.setFlag
    /\ buf.dataSize = buf.bufferSize /\ buf.dataSize = MaxLen

\* C9 (as claimed): a setData that does not fail with a type error was given the
\* buffer's declared element type and its declared array multiplicity.
C9_AsClaimed ==
    (bufRes.op = "setData" /\ bufRes.status # "typeError") =>
        /\ SetFormType(bufRes.kind) = buf.dataType
        /\ SetFormUnits(bufRes.kind) = buf.arrayCount

\* C10 (as claimed): a read that succeeds lies within the units the last setData
\* wrote, on a buffer that has been written.
C10_AsClaimed ==
    (bufRes.op \in {"getData", "getDataRange"} /\ bufRes.status = "ok") =>
        /\ buf.setFlag
        /\ bufRes.a + bufRes.b <= buf.live


\* ============================================================
\*  Properties of the program cache (checked under SpecCache)
\* ============================================================

\* a rule list without the later repeats of a name already seen
RECURSIVE DropRepeatsFrom(_, _)
DropRepeatsFrom(list, i) ==
    IF i > Len(list) THEN <<>>
    ELSE (IF SeenBefore(list, i) THEN <<>> ELSE <<list[i]>>) \o DropRepeatsFrom(list, i + 1)

DropRepeats(list) == DropRepeatsFrom(list, 1)

\* the non-empty rule names of a list, as a set
RuleSet(list) == {list[i] : i \in 1..Len(list)} \ {""}

\* the compiled program a request for (programName, rules, defaults) made earlier
\* was served from, if the cache holds one
HeldFor(programName, rules, defaults) ==
    LET k == programKeyFromRules(programName, rules, defaults)
    IN  IF k \in DOMAIN compiledProgamCache THEN compiledProgamCache[k] ELSE NullProgram

\* C1 (as claimed): the program a request is served is the one the cache holds for
\* every rule list that is equal to the request's after dropping later repeats.
C1_AsClaimed ==
    engRes.status = "ok" /\ engRes.op = "requestShader" =>
        \A R2 \in RuleLists :
            (/\ DropRepeats(R2) = DropRepeats(engRes.rules)
             /\ HeldFor(engRes.programName, R2, engRes.defaults) # NullProgram)
                => HeldFor(engRes.programName, R2, engRes.defaults) = engRes.prog

\* C2 (as claimed): the program a request is served is not the one the cache holds
\* for any rule list that differs from the request's as a set of non-empty names.
C2_AsClaimed ==
    engRes.status = "ok" /\ engRes.op = "requestShader" =>
        \A R2 \in RuleLists :
            (/\ RuleSet(R2) # RuleSet(engRes.rules)
             /\ <<engRes.programName, R2, engRes.defaults>> \in Requests
             /\ PrepareRules(R2 \o ExpandDefaults(engRes.defaults), 1, registeredShaderRules).ok)
                => HeldFor(engRes.programName, R2, engRes.defaults) # engRes.prog

\* ============================================================
\*  Properties of the shader program instance (checked under SpecProgram)
\* ============================================================

\* the calls that set a uniform, an attribute or a texture by name
Setters ==
    {"setUniform", "setAttribute", "setAttributeExternal", "setTexture1D", "setTexture2D",
     "setTextureFromBuffer", "setTextureFromColormap"}

\* the name is declared in the list, and nowhere with a location
OptimizedOut(list, name) ==
    /\ \E i \in 1..Len(list) : list[i].name = name
    /\ \A i \in 1..Len(list) : list[i].name = name => list[i].location = NoLocation

\* C3 (as claimed): a setter given a declared name that has no location returns
\* without raising and leaves the instance as it was, and hasUniform, hasAttribute
\* and hasTexture are false for such a name.
C3_AsClaimed ==
    /\ (progRes.op \in Setters /\ progRes.optimizedOut) =>
            (progRes.status = "ok" /\ ~progRes.changed)
    /\ \A name \in UniformNames : OptimizedOut(prog.uniforms, name) => ~hasUniform(prog, name)
    /\ \A name \in AttributeNames :
            OptimizedOut(prog.attributes, name) => ~hasAttribute(prog, name)
    /\ \A name \in TextureNames : OptimizedOut(prog.textures, name) => ~hasTexture(prog, name)

\* the positions of a list that have a location
Resolved(list) == {i \in 1..Len(list) : list[i].location # NoLocation}

\* the resolved attributes whose buffer has been written
Written(p) ==
    {i \in Resolved(p.attributes) :
        p.attributes[i].buff # Null /\ Deref(p.attributes[i].buff).setFlag}

\* the multiplier of attribute i of p for the buffer it has
Multiplier(p, i) ==
    renderDataTypeCountCompatbility(p.attributes[i].type, Deref(p.attributes[i].buff).dataType)

\* two written attributes whose element counts, each divided by its multiplier,
\* are different numbers: n_i / m_i # n_j / m_j, cross-multiplied
ScaledCountsDiffer(p) ==
    \E i, j \in Written(p) :
        Deref(p.attributes[i].buff).dataSize * Multiplier(p, j)
            # Deref(p.attributes[j].buff).dataSize * Multiplier(p, i)

\* what validate is claimed to insist on: something of it is missing
SomethingMissing(p) ==
    \/ \E i \in Resolved(p.uniforms) : ~p.uniforms[i].isSet
    \/ \E i \in Resolved(p.attributes) : i \notin Written(p)
    \/ \E i \in Resolved(p.textures) : ~p.textures[i].isSet
    \/ UseIndex(p.drawMode) /\ p.indexBuffer = Null
    \/ Instanced(p.drawMode) /\ p.instanceCount = INVALID_IND_32

\* C4: on an instance whose written attributes agree in scaled size, validateData
\* fails exactly when a resolved uniform is unset, a resolved attribute has no
\* buffer or an unwritten one, a resolved texture is unset, the mode is indexed
\* without an index buffer, or the mode is instanced without an instance count
\* (one other than INVALID_IND_32).
C4_ValidateCompleteness ==
    ~ScaledCountsDiffer(prog) =>
        (validateData(prog).status # "ok" <=> SomethingMissing(prog))

\* C4 witness: validateData returned on an indexed instance with a set uniform,
\* a written attribute, a set texture and an index buffer.
C4_Witness ==
    /\ progRes.op = "validateData" /\ progRes.status = "ok"
    /\ UseIndex(prog.drawMode) /\ prog.indexBuffer # Null
    /\ Written(prog) # {}
    /\ \E i \in Resolved(prog.uniforms) : prog.uniforms[i].isSet
    /\ \E i \in Resolved(prog.textures) : prog.textures[i].isSet

\* C5 (as claimed): with nothing missing, validateData fails with the
\* inconsistent-size error exactly when two written attributes differ in element
\* count divided by multiplier.
C5_AsClaimed ==
    (progRes.op = "validateData" /\ ~SomethingMissing(prog)) =>
        (progRes.status = "inconsistentSize" <=> ScaledCountsDiffer(prog))

\* ============================================================
\*  Framebuffer claims
\* ============================================================

\* C11: bindForRendering returns true only for a framebuffer whose viewport was
\* set: whenever the last call is a bindForRendering that returned true, the
\* framebuffer's viewport is set, to a rectangle some setViewport gave it, and
\* that rectangle is the current viewport.
C11_BoundOnlyWithViewport ==
    (fbRes.op = "bindForRendering" /\ fbRes.returned)
        => /\ fb.viewportSet
           /\ fb.viewport \in Viewports
           /\ ctx.currViewport = fb.viewport

\* a bindForRendering that returned true
C11_Witness ==
    /\ fbRes.op = "bindForRendering"
    /\ fbRes.returned
    /\ fb.viewportSet

\* C12: the k-th color attachment recorded (render buffers and textures counted
\* together, from 0) sits at color slot k of the native framebuffer and stays
\* there; nColorBuffers is the number of recorded color render buffers plus color
\* textures and is at most 8; an addColorBuffer refused for want of a slot leaves
\* the count and the lists as they were.
C12_ColorSlotsInOrder ==
    /\ fb.nColorBuffers = Len(fb.renderBuffersColor) + Len(fb.textureBuffersColor)
    /\ fb.nColorBuffers = Len(fb.added)
    /\ fb.nColorBuffers <= LastColorAttachment + 1
    /\ \A k \in 0..(fb.nColorBuffers - 1) : fb.colorSlots[k] = PointerTo(fb.added[k + 1])
    /\ fbRes.status = "tooManyColorAttachments"
           => (~fbRes.changed /\ fb.nColorBuffers = LastColorAttachment + 1)

\* eight attachments of both kinds recorded and a ninth refused
C12_Witness ==
    /\ fbRes.op = "addColorBuffer"
    /\ fbRes.status = "tooManyColorAttachments"
    /\ fb.nColorBuffers = LastColorAttachment + 1
    /\ fb.renderBuffersColor # <<>>
    /\ fb.textureBuffersColor # <<>>
    /\ fb.added[1] # fb.added[2]

\* C13: a framebuffer records at most one depth target: the depth render buffer
\* list and the depth texture list together hold no more than one entry.
C13_AsClaimed ==
    Len(fb.renderBuffersDepth) + Len(fb.textureBuffersDepth) <= 1

\* the engine's fields and the device state that a completed bindForRendering writes
RenderState(c) == <<c.currRenderFramebuffer, c.currViewport, c.glViewport,
                    c.depthTest, c.depthFunc, c.depthMask, c.blend, c.blendFunc>>

\* C14: a bindForRendering that finds the native framebuffer incomplete returns
\* false without raising, whether or not the viewport was set, and leaves the
\* current render framebuffer, the current viewport, the depth test and the
\* blending as they were; a clear() that finds it incomplete clears nothing.
C14_IncompleteIsSoft ==
    [][(fbRes'.op \in {"bindForRendering", "clear"} /\ fbRes'.status = "incomplete")
          => /\ ~fbRes'.returned
             /\ ~fbRes'.cleared
             /\ RenderState(ctx') = RenderState(ctx)
             /\ ctx'.boundFramebuffer = "this"]_vars

\* an incomplete framebuffer met by bindForRendering with the viewport not set,
\* while another state than bindForRendering's own is in force
C14_Witness ==
    /\ fbRes.op = "bindForRendering"
    /\ fbRes.status = "incomplete"
    /\ ~fb.viewportSet
    /\ fb.nColorBuffers > 0
    /\ ctx.currRenderFramebuffer = Null
    /\ ctx.depthFunc = "GREATER"
    /\ ~ctx.blend

\* ============================================================
\*  Compiled program claims
\* ============================================================

\* every declaration of one kind, in the order the stages make them
RECURSIVE Declared(_, _)
Declared(stages, kind) ==
    IF stages = <<>> THEN <<>>
    ELSE Head(stages)[kind] \o Declared(Tail(stages), kind)

\* one name declared with two types (dimensions)
Clashing(decls, on) ==
    \E i, j \in DOMAIN decls : decls[i].name = decls[j].name /\ decls[i][on] # decls[j][on]

FirstDeclaration(decls, name) ==
    CHOOSE i \in DOMAIN decls :
        decls[i].name = name /\ \A j \in 1..(i - 1) : decls[j].name # name

\* merged holds every declared name once, as first declared, in the order of the
\* first declarations
MergedFrom(merged, decls) ==
    /\ \A i, j \in DOMAIN merged : merged[i].name = merged[j].name => i = j
    /\ {merged[i].name : i \in DOMAIN merged} = {decls[i].name : i \in DOMAIN decls}
    /\ \A i \in DOMAIN merged : merged[i] = decls[FirstDeclaration(decls, merged[i].name)]
    /\ \A i, j \in DOMAIN merged :
          i < j => FirstDeclaration(decls, merged[i].name) < FirstDeclaration(decls, merged[j].name)

\* C15: the constructor fails on a name clash exactly when some uniform or
\* attribute name is declared with two types or some texture name with two
\* dimensions; a program it builds lists every declared uniform, attribute and
\* texture name once, as first declared and in the order of first declaration, so
\* that repeating a declaration with the same type changes nothing.
C15_MergeByFirstDeclaration ==
    LET stages == construction.stages
        result == construction.result
    IN  result.status # "none" =>
          /\ result.status = "nameClash"
                <=> \/ Clashing(Declared(stages, "uniforms"), "type")
                    \/ Clashing(Declared(stages, "attributes"), "type")
                    \/ Clashing(Declared(stages, "textures"), "dim")
          /\ result.status = "ok"
                => /\ MergedFrom(result.uniforms, Declared(stages, "uniforms"))
                   /\ MergedFrom(result.attributes, Declared(stages, "attributes"))
                   /\ MergedFrom(result.textures, Declared(stages, "textures"))

\* a program built from two stages that both declare u_color with one type, the
\* second after declaring u_range
C15_Witness ==
    /\ construction.result.status = "ok"
    /\ Len(construction.stages) = 2
    /\ Len(Declared(construction.stages, "uniforms")) = 3
    /\ Len(construction.result.uniforms) = 2
    /\ construction.result.uniforms[1].name = "u_color"
    /\ Len(Declared(construction.stages, "attributes")) = 2
    /\ Len(construction.result.attributes) = 1

\* C16: a constructor call whose stages declare no attribute fails at the
\* collecting loop or at the attribute test, never at compiling or linking, and
\* every program that is built has an attribute.
C16_AttributesBeforeCompile ==
    LET stages == construction.stages
        result == construction.result
    IN  /\ (result.status # "none" /\ Declared(stages, "attributes") = <<>>)
              => result.status \in {"noAttributes", "nameClash"}
        /\ result.status = "ok" => result.attributes # <<>>

\* two stages with uniforms and a texture but no attribute, refused for that
C16_Witness ==
    /\ construction.result.status = "noAttributes"
    /\ Len(construction.stages) = 2
    /\ Declared(construction.stages, "attributes") = <<>>
    /\ Declared(construction.stages, "uniforms") # <<>>
    /\ Declared(construction.stages, "textures") # <<>>

\* ============================================================
\*  Shader program instance claims
\* ============================================================

\* the set flags of the uniforms, in declaration order
UniformFlags(p) == [i \in DOMAIN p.uniforms |-> p.uniforms[i].isSet]

\* C17: no step clears a uniform's set flag; setUniform on a declared and
\* resolved uniform with the declared type succeeds and leaves it set, with
\* another type it fails and changes no set flag; setUniform with a name that is
\* not declared fails and changes no set flag.
C17_SetUniformFlags ==
    [][/\ \A i \in DOMAIN prog.uniforms : prog.uniforms[i].isSet => prog'.uniforms[i].isSet
       /\ \A name \in UniformNames, T \in UniformTypes :
             (progRes'.op = "setUniform" /\ SetUniform(name, T)) =>
                LET i == FirstNamed(prog.uniforms, name)
                IN  IF i = 0
                    THEN progRes'.status = "noSuchUniform"
                            /\ UniformFlags(prog') = UniformFlags(prog)
                    ELSE IF prog.uniforms[i].location = NoLocation THEN TRUE
                    ELSE IF prog.uniforms[i].type = T
                    THEN progRes'.status = "ok" /\ prog'.uniforms[i].isSet
                    ELSE progRes'.status = "wrongType"
                            /\ UniformFlags(prog') = UniformFlags(prog)]_vars

\* a uniform that was set, and a setUniform with the wrong type after it
C17_Witness ==
    /\ progRes.op = "setUniform"
    /\ progRes.status = "wrongType"
    /\ ~progRes.changed
    /\ \E i \in DOMAIN prog.uniforms :
          prog.uniforms[i].isSet /\ prog.uniforms[i].location # NoLocation

\* buffer `new` is buffer `old`, possibly written since: the type and the
\* multiplicity it was constructed with, storage that never shrinks, a set flag
\* that stays
SameBufferLater(old, new) ==
    /\ new.dataType = old.dataType
    /\ new.arrayCount = old.arrayCount
    /\ new.bufferSize >= old.bufferSize
    /\ old.setFlag => new.setFlag

\* C18: an attribute that has a buffer keeps that buffer through every step;
\* setAttribute with data on a resolved attribute without a buffer leaves it with
\* a new buffer of the attribute's type and multiplicity, on one with a buffer it
\* writes into that buffer; setAttribute with an external buffer on a resolved
\* attribute that has a buffer fails and changes nothing; either setAttribute with
\* a name that is not declared fails and changes nothing.
C18_BufferKept ==
    [][/\ \A i \in DOMAIN prog.attributes :
             prog.attributes[i].buff # Null
                => /\ prog'.attributes[i].buff # Null
                   /\ SameBufferLater(Deref(prog.attributes[i].buff),
                                      Deref(prog'.attributes[i].buff))
       /\ \A name \in AttributeNames, form \in AttributeForms, n \in AttributeLens :
             (progRes'.op = "setAttribute" /\ SetAttributeData(name, form, n)) =>
                LET i == FirstResolved(prog.attributes, name)
                IN  IF i = 0
                    THEN FirstNamed(prog.attributes, name) = 0
                            => (progRes'.status = "noSuchAttribute" /\ prog' = prog)
                    ELSE /\ prog'.attributes[i].buff # Null
                         /\ prog.attributes[i].buff = Null
                               => /\ Deref(prog'.attributes[i].buff).dataType = prog.attributes[i].type
                                  /\ Deref(prog'.attributes[i].buff).arrayCount
                                        = prog.attributes[i].arrayCount
                         /\ progRes'.status = "ok"
                               => /\ Deref(prog'.attributes[i].buff).setFlag
                                  /\ Deref(prog'.attributes[i].buff).dataSize = n
       /\ \A name \in AttributeNames, externalBuffer \in ExternalBuffers :
             (progRes'.op = "setAttributeExternal" /\ SetAttributeExternal(name, externalBuffer)) =>
                LET i == FirstNamed(prog.attributes, name)
                IN  IF i = 0 THEN progRes'.status = "noSuchAttribute" /\ prog' = prog
                    ELSE (prog.attributes[i].location # NoLocation /\ prog.attributes[i].buff # Null)
                            => /\ progRes'.status \in {"alreadySet", "incompatibleType"}
                               /\ prog' = prog]_vars

\* an attribute whose buffer was created by a first setAttribute with four
\* elements and written again by a second with one
C18_Witness ==
    /\ progRes.op = "setAttribute"
    /\ progRes.status = "ok"
    /\ \E i \in DOMAIN prog.attributes :
          /\ prog.attributes[i].buff # Null
          /\ Deref(prog.attributes[i].buff).dataSize >= 1
          /\ Deref(prog.attributes[i].buff).bufferSize > Deref(prog.attributes[i].buff).dataSize

\* a texture-setting call on the resolved slot i failed and left the slot alone
RefusedOn(i) ==
    /\ progRes'.status # "ok"
    /\ prog'.textures[i] = prog.textures[i]

\* C19: a texture-setting call on a resolved slot that is already set fails and
\* leaves the slot's binding as it was, whether it is setTexture2D,
\* setTextureFromBuffer or setTextureFromColormap without allowUpdate.
C19_AsClaimed ==
    [][/\ \A name \in TextureNames :
             (progRes'.op = "setTexture2D" /\ SetTexture2D(name)) =>
                LET i == FirstResolved(prog.textures, name)
                IN  (i # 0 /\ prog.textures[i].isSet) => RefusedOn(i)
       /\ \A name \in TextureNames, dim \in {1, 2}, foreign \in BOOLEAN :
             (progRes'.op = "setTextureFromBuffer" /\ SetTextureFromBuffer(name, dim, foreign)) =>
                LET i == FirstResolved(prog.textures, name)
                IN  (i # 0 /\ prog.textures[i].isSet) => RefusedOn(i)
       /\ \A name \in TextureNames :
             (progRes'.op = "setTextureFromColormap" /\ SetTextureFromColormap(name, FALSE)) =>
                LET i == FirstResolved(prog.textures, name)
                IN  (i # 0 /\ prog.textures[i].isSet) => RefusedOn(i)]_vars

FloatingTypes == {"Float", "Vector2Float", "Vector3Float", "Vector4Float", "Matrix44Float"}

\* the multiplicity the claim gives each integer type
ClaimedMultiplicity ==
    [T \in RenderDataTypes \ FloatingTypes |->
        IF T = "Vector2UInt" THEN 2 ELSE IF T = "Vector3UInt" THEN 3
        ELSE IF T = "Vector4UInt" THEN 4 ELSE 1]

C21_AsClaimed ==
    (progRes.op = "validateData" /\ progRes.status = "ok") =>
        IF UseIndex(prog.drawMode)
        THEN prog.drawDataLength = prog.indexSizeMult * Deref(prog.indexBuffer).dataSize
        ELSE \A i \in Resolved(prog.attributes) :
                Deref(prog.attributes[i].buff).dataSize = prog.drawDataLength * Multiplier(prog, i)

\* ============================================================
\*  Properties of drawing (checked under SpecDraw)
\* ============================================================

\* the statuses a draw ends with once validateData has returned
PastValidation == {"ok", "deviceError", "fault"}

\* C22: only a draw issues native calls, and only when validateData passes on the
\* instance as it is when draw is called; a draw on which validateData throws
\* ends with that exception, issues no native call at all (no program or
\* vertex-layout binding, no texture unit, no draw call) and leaves primitive
\* restart as it was.
C22_DrawOnlyWhenValid ==
    [][ /\ gl' # gl => progRes'.op = "draw"
        /\ progRes'.op = "draw" =>
             LET v == validateData(prog)
             IN  /\ (\E k \in 1..Len(gl'.issued) : gl'.issued[k] \in NativeDrawCalls)
                        => v.status = "ok"
                 /\ v.status # "ok" =>
                        /\ progRes'.status = v.status
                        /\ gl'.issued = <<>>
                        /\ gl'.primitiveRestart = gl.primitiveRestart
                        /\ gl'.primitiveRestartIndex = gl.primitiveRestartIndex ]_vars

\* a draw of a restartable instance, its colour and restart index set, that
\* validateData stopped
C22_Witness ==
    /\ progRes.op = "draw"
    /\ progRes.status \notin PastValidation
    /\ UsePrimitiveRestart(prog.drawMode)
    /\ restart.primitiveRestartIndexSet
    /\ \E i \in Resolved(prog.uniforms) : prog.uniforms[i].isSet

\* C23 (as claimed): primitive restart is enabled only inside a draw: in every
\* state between calls it is disabled, also after a draw that ended with an
\* error raised once validation had passed.
C23_AsClaimed == gl.primitiveRestart = FALSE

\* ============================================================
\*  Properties of the builds (checked under SpecBuilds)
\* ============================================================

\* C24 (as claimed): rule substitution and compilation are performed at most
\* once for each cache key, whatever the requests and draws.
C24_AsClaimed == \A k \in DOMAIN builds : builds[k].performed <= 1

\* C24 (amended): for each cache key at most one build succeeds, a build is
\* performed only by a requestShader that finds nothing cached under its key,
\* and no draw performs one or touches the cache; a build that failed may be
\* performed again by a later request for the same key.
C24_OneSuccessfulBuild ==
    [][ /\ \A k \in DOMAIN builds' : builds'[k].succeeded <= 1
        /\ Len(compiled') = Cardinality({k \in DOMAIN builds' : builds'[k].succeeded = 1})
        /\ \A k \in DOMAIN builds' :
                builds'[k] # BuildsOf(k) =>
                    /\ engRes'.op = "requestShader"
                    /\ k \notin DOMAIN compiledProgamCache
        /\ <<prog, progRes, gl>>' # <<prog, progRes, gl>> =>
                /\ builds' = builds
                /\ compiled' = compiled
                /\ compiledProgamCache' = compiledProgamCache ]_vars

\* a key built twice: the first build failed, the second succeeded, and the
\* instance has been drawn since
C24_Witness ==
    /\ \E k \in DOMAIN builds : builds[k].performed = 2 /\ builds[k].succeeded = 1
    /\ progRes.op = "draw"
    /\ progRes.status = "ok"

\* ============================================================
\*  Properties of the rule lists (checked under SpecCache)
\* ============================================================

\* C25 (as claimed): a request whose rule list, the caller's rules followed by
\* the expanded defaults, holds a non-empty name that is not registered fails:
\* every request that was served named registered rules only.
C25_AsClaimed ==
    engRes.op = "requestShader" /\ engRes.status = "ok" =>
        RuleSet(engRes.rules \o ExpandDefaults(engRes.defaults))
            \subseteq DOMAIN registeredShaderRules

\* the names of a list that are not empty, in order
NonEmpty(list) == SelectSeq(list, LAMBDA s : s # "")

\* the rules of a preset, in preset order
PresetRules(defaults) ==
    CASE defaults = "SceneObject" -> defaultRules_sceneObject
      [] defaults = "SceneObjectNoSlice" ->
            SelectSeq(defaultRules_sceneObject, LAMBDA s : ~StartsWith(s, "SLICE_PLANE_"))
      [] defaults = "Pick" -> defaultRules_pick
      [] defaults = "Process" -> defaultRules_process
      [] defaults = "None" -> <<>>

\* the sequence the claim names for a request
ClaimedRules(customRules, defaults) ==
    DropRepeats(NonEmpty(customRules \o PresetRules(defaults)))

\* C26: when a request builds a program, the rules handed to
\* applyShaderReplacements are the caller's rules in caller order followed by the
\* preset's rules in preset order (for the no-slice preset the scene-object
\* defaults without the names starting with SLICE_PLANE_), with the empty names
\* removed and only the first occurrence of a name kept; the program built is the
\* one constructed from the stages with those rules applied.
C26_RulesHandedOn ==
    [][ engRes'.op = "requestShader" /\ Len(compiled') > Len(compiled) =>
            LET prep == PrepareRules(engRes'.rules \o ExpandDefaults(engRes'.defaults), 1,
                                     registeredShaderRules)
                claimed == ClaimedRules(engRes'.rules, engRes'.defaults)
                registered == registeredShaderPrograms[engRes'.programName]
            IN  /\ prep.ok
                /\ prep.rules = claimed
                /\ compiled'[Len(compiled')] =
                        NewCompiledProgram(
                            applyShaderReplacements(registered.stages, claimed,
                                                    registeredShaderRules),
                            registered.drawMode, "ok") ]_vars

\* a program was just built for a request that repeats a rule and takes the
\* scene-object defaults
C26_Witness ==
    /\ engRes.op = "requestShader"
    /\ engRes.status = "ok"
    /\ engRes.rules = <<"A", "A">>
    /\ engRes.defaults = "SceneObject"
    /\ engRes.prog = Len(compiled)

\* ============================================================
\*  Properties of the texture buffer (checked under SpecTexture)
\* ============================================================

\* C27 (as claimed): a setData whose sequence has another channel count per
\* element than the format, or another length than the texture's total element
\* count, fails and leaves the contents unchanged.
C27_AsClaimed ==
    (/\ texRes.op = "setData"
     /\ \/ texRes.k # dimension(tex.format)
        \/ texRes.n # getTotalSize(tex))
        => texRes.status # "ok" /\ ~texRes.changed

\* C28 (as claimed): unless the device reports an error, a read-back of arity k
\* fails when the format does not have exactly k channels and otherwise
\* succeeds, returning as many elements as the texture's total element count.
C28_AsClaimed ==
    (texRes.op = "getData" /\ texRes.status \notin {"deviceError", "fault"}) =>
        IF dimension(tex.format) # texRes.k
        THEN texRes.status # "ok"
        ELSE texRes.status = "ok" /\ texRes.returned = getTotalSize(tex)

\* ============================================================
\*  Properties of the instances of one program (checked under SpecShare)
\* ============================================================

\* an instance nothing was set on: no uniform or texture set, no attribute or
\* index buffer, no draw length
Unconfigured(p) ==
    /\ \A i \in 1..Len(p.uniforms) : ~p.uniforms[i].isSet
    /\ \A i \in 1..Len(p.attributes) : p.attributes[i].buff = Null
    /\ \A i \in 1..Len(p.textures) : ~p.textures[i].isSet
    /\ p.indexBuffer = Null
    /\ p.drawDataLength = 0

\* the names and types of an interface list
Declarations(list, field) == [i \in 1..Len(list) |-> <<list[i].name, list[i][field]>>]

FreshBuild(programName, customRules, defaults) ==
    LET prep == PrepareRules(customRules \o ExpandDefaults(defaults), 1, registeredShaderRules)
    IN  IF programName \notin DOMAIN registeredShaderPrograms THEN [status |-> "noProgram"]
        ELSE IF ~prep.ok THEN [status |-> "noRule"]
        ELSE NewCompiledProgram(
                 applyShaderReplacements(registeredShaderPrograms[programName].stages,
                                         prep.rules, registeredShaderRules),
                 registeredShaderPrograms[programName].drawMode, "ok")

\* C30 (as claimed): the program the cache holds under the key of a request is
\* the program a fresh build for that request would produce from the registries
\* as they are now.
C30_AsClaimed ==
    \A req \in Requests :
        LET progKey == programKeyFromRules(req[1], req[2], req[3])
        IN  (progKey \in DOMAIN compiledProgamCache
                /\ compiledProgamCache[progKey] # NullProgram)
                => compiled[compiledProgamCache[progKey]] = FreshBuild(req[1], req[2], req[3])

\* the same for the requests whose key no request with other rules shares
CoherentApartFromSharedKeys ==
    \A req \in Requests :
        LET progKey == programKeyFromRules(req[1], req[2], req[3])
        IN  (/\ progKey \in DOMAIN compiledProgamCache
             /\ compiledProgamCache[progKey] # NullProgram
             /\ \A other \in Requests :
                    programKeyFromRules(other[1], other[2], other[3]) = progKey
                        => RuleSet(other[2]) = RuleSet(req[2]))
                => compiled[compiledProgamCache[progKey]] = FreshBuild(req[1], req[2], req[3])

\* ============================================================
\*  Failed requests (checked under SpecCache)
\* ============================================================

\* C31 (as claimed): a requestShader that fails leaves the cache exactly as it
\* was, and the cache never holds an empty entry.
C31_AsClaimed ==
    [][ (engRes'.op = "requestShader" /\ engRes'.status # "ok") =>
            /\ compiledProgamCache' = compiledProgamCache
            /\ \A k \in DOMAIN compiledProgamCache' :
                    compiledProgamCache'[k] # NullProgram ]_vars

\* ============================================================
\*  More properties of drawing (checked under SpecDraw)
\* ============================================================

\* C32 (as claimed): in every state of an instance a texture slot marked set
\* holds a texture, so no draw past validation binds a missing one.
C32_AsClaimed ==
    /\ \A i \in 1..Len(prog.textures) :
            prog.textures[i].isSet => prog.textures[i].textureBuffer # "null"
    /\ progRes.op = "draw" => progRes.status # "fault"

\* ============================================================
\*  More properties of the instance (checked under SpecProgram)
\* ============================================================

\* what attributeIsSet(name) should answer: "true" when the first resolved
\* attribute of the name has a buffer that has been written, "false" otherwise
WrittenAttribute(name) ==
    LET i == FirstResolved(prog.attributes, name)
    IN  IF i # 0 /\ prog.attributes[i].buff # Null /\ Deref(prog.attributes[i].buff).setFlag
        THEN "true" ELSE "false"

\* C33 (as claimed): attributeIsSet(name) never faults, answers false for a
\* resolved attribute that has no buffer yet, and answers true exactly when the
\* attribute's buffer has been written.
C33_AsClaimed ==
    [][ \A name \in AttributeNames, nullDeref \in NullDerefs, garbage \in BOOLEAN :
            AttributeIsSet(name, nullDeref, garbage) =>
                progRes'.status = WrittenAttribute(name) ]_vars

\* ============================================================
\*  More properties of validateData (checked under SpecIndex and SpecProgram)
\* ============================================================

\* C34 (as claimed): a validateData that returned leaves a draw length counted
\* from written data: in an indexed mode the index buffer has been written, in
\* the other modes some attribute is resolved, and the length is not the
\* unsigned image of a negative size.
C34_AsClaimed ==
    (progRes.op = "validateData" /\ progRes.status = "ok") =>
        /\ UseIndex(prog.drawMode) => Deref(prog.indexBuffer).dataSize >= 0
        /\ ~UseIndex(prog.drawMode) => Resolved(prog.attributes) # {}
        /\ prog.drawDataLength <= MaxAttributeLen * 4

\* the same for the non-indexed modes alone
CountedWithoutIndex ==
    (progRes.op = "validateData" /\ progRes.status = "ok" /\ ~UseIndex(prog.drawMode)) =>
        /\ Resolved(prog.attributes) # {}
        /\ prog.drawDataLength <= MaxAttributeLen * 4

\* ============================================================
\*  More properties of the typed buffer (checked under SpecBuffer)
\* ============================================================

\* getData_<T>(i) and getDataRange_<T>(i, 1) end alike on the buffer, and accept
\* it exactly when it is declared with T's type
ReadsAgree(T, i) ==
    /\ (getData(buf, T, i).status = "ok") = (getDataRange(buf, T, i, 1).status = "ok")
    /\ getData(buf, T, i).vals = getDataRange(buf, T, i, 1).vals
    /\ (getData(buf, T, i).status # "badType") = (buf.dataType = GetDataRangeType(T))

\* C35 (as claimed): for every element type T and every index below the logical
\* length, getData_<T>(i) and getDataRange_<T>(i, 1) both fail or both succeed
\* with the same value, and both accept exactly the buffers declared with T's type.
C35_AsClaimed ==
    \A T \in ReadTypes, i \in 0..MaxIndex :
        (buf.setFlag /\ i < buf.dataSize * buf.arrayCount) => ReadsAgree(T, i)

\* the same for the element types other than the unsigned vectors
AgreeApartFromUnsignedVectors ==
    \A T \in ReadTypes \ {"uvec2", "uvec3", "uvec4"}, i \in 0..MaxIndex :
        (buf.setFlag /\ i < buf.dataSize * buf.arrayCount) => ReadsAgree(T, i)

\* C36 (as claimed): what an accepted setData writes, and what an accepted read
\* touches, lies within the storage most recently allocated for the buffer.
C36_AsClaimed ==
    /\ (bufRes.op = "setData" /\ bufRes.status # "typeError") =>
            InStorage(buf.mem, 0, bufRes.a * bufRes.b)
    /\ (bufRes.op \in {"getData", "getDataRange"} /\ bufRes.status = "ok") =>
            InStorage(buf.mem, bufRes.a, bufRes.b)

\* the same for the writes alone
WritesInStorage ==
    (bufRes.op = "setData" /\ bufRes.status # "typeError") =>
        InStorage(buf.mem, 0, bufRes.a * bufRes.b)

\* ============================================================
\*  More properties of the framebuffer (checked under SpecRender)
\* ============================================================

\* C37 (as claimed): a bindForRendering that does not return true leaves the
\* engine's current render framebuffer as it was, so the current render
\* framebuffer is only ever one whose viewport has been set.
C37_AsClaimed ==
    [][ /\ (fbRes'.op = "bindForRendering" /\ fbRes'.status # "ok") =>
                ctx'.currRenderFramebuffer = ctx.currRenderFramebuffer
        /\ ctx'.currRenderFramebuffer = PointerTo("this") => fb'.viewportSet ]_vars

\* the same for the exits taken before the framebuffer is found complete
UnboundKeepsCurrent ==
    [][ (fbRes'.op = "bindForRendering"
            /\ fbRes'.status \in {"sizeMismatch", "deviceErrorOnBind", "incomplete"}) =>
                ctx'.currRenderFramebuffer = ctx.currRenderFramebuffer ]_vars

\* ============================================================
\*  More properties of the constructor (checked under SpecLog)
\* ============================================================

\* a construction whose stages declare an attribute and no clashing name, and
\* whose sources the device compiled and linked
CompiledAndLinked ==
    /\ construction # NoConstruction
    /\ construction.device = "ok"
    /\ NewCompiledProgram(construction.stages, "Triangles", "ok").status = "ok"

\* C38 (as claimed): when every stage compiles and the program links, the
\* constructor succeeds whatever the verbosity and whatever the stage log holds.
C38_AsClaimed == CompiledAndLinked => construction.result.status = "ok"

\* the same at the verbosity levels that do not print the log of a stage that
\* compiled
SucceedsWhenQuiet ==
    (CompiledAndLinked /\ construction.verbosity <= 2) => construction.result.status = "ok"

\* ============================================================
\*  More properties of validateData (checked under SpecProgram)
\* ============================================================

\* C39 (as claimed): a validateData that returned found in every resolved
\* attribute an element count that is an exact multiple of the attribute's
\* type-compatibility multiplier.
C39_AsClaimed ==
    (progRes.op = "validateData" /\ progRes.status = "ok") =>
        \A i \in Resolved(prog.attributes) :
            Deref(prog.attributes[i].buff).dataSize % Multiplier(prog, i) = 0

\* ============================================================
\*  More properties of drawing: the restart index (checked under SpecDraw)
\* ============================================================

\* C40 (as claimed): on an instance whose draw mode supports primitive restart
\* and on which setPrimitiveRestartIndex was never called, a draw fails
\* validation or draws without enabling primitive restart.
C40_AsClaimed ==
    (progRes.op = "draw" /\ UsePrimitiveRestart(prog.drawMode)
        /\ ~restart.primitiveRestartIndexSet) =>
            \/ progRes.status \notin PastValidation
            \/ \A i \in 1..Len(gl.issued) :
                    gl.issued[i] \notin {"glEnable", "glPrimitiveRestartIndex"}

\* a draw enables primitive restart only in the draw modes that support it
EnabledOnlyWhereSupported ==
    (progRes.op = "draw" /\ ~UsePrimitiveRestart(prog.drawMode)) =>
        \A i \in 1..Len(gl.issued) :
            gl.issued[i] \notin {"glEnable", "glPrimitiveRestartIndex"}

====
